---- MODULE Spec2Model ----
(***************************************************************************)
(* A model of the content processing pipeline of mynewsreporter:           *)
(* ContentCleaner, KeywordExtractor and ContentScorer as operators over    *)
(* texts (sequences of one-character strings and markup tokens), and       *)
(* DataProcessor (process_content, batch_process, is_duplicate) as a state *)
(* machine over the shared dedup cache; ContentAggregator as operators     *)
(* over corpora of ProcessedContent values, applied by a caller that holds *)
(* one corpus (SpecAgg), and calculate_importance applied to contents of   *)
(* any field values (SpecScore); the section payloads of ReportGenerator   *)
(* (SpecSection), and DataCollector.deduplicate as a state machine over    *)
(* the content-hash namespace of the cache (SpecColl).                     *)
(*                                                                         *)
(* Conventions.                                                            *)
(*  - A text is a sequence of tokens.  A token is a one-character string,  *)
(*    or one of the markup tokens "<p>", "</p>", "<script>", "</script>"   *)
(*    (the lexing of markup is the HTML parser's, a library).              *)
(*  - None and the empty string are both the empty sequence: the code only *)
(*    tests them with `not x` and `x or ""`.                               *)
(*  - md5 and sha256 are injective on the inputs of the model: a key       *)
(*    carries the hashed value itself.                                     *)
(*  - Scores are integers: quality in 1/10^4, factor scores in 1/10^4,     *)
(*    weights in 1/10^2, the boost in 1/10^3, importance in 1/10^9.        *)
(*  - Time is counted in whole hours; the aggregator's datetimes count     *)
(*    ticks, TicksPerHour of them to an hour.                              *)
(***************************************************************************)
EXTENDS Integers, Sequences, FiniteSets, TLC

VARIABLES redis_client, cache, now, inv, last, dup, submitted, batch, agg, scoring,
          coll

vars == <<redis_client, cache, now, inv, last, dup, submitted, batch, agg, scoring, coll>>

(***************************************************************************)
(* Bounds of the model.                                                    *)
(***************************************************************************)
\* length of the longest batch handed to batch_process
MaxBatch == 2
\* number of repetitions of a word block in a long body
Blocks == 9

(***************************************************************************)
(* Text helpers.                                                           *)
(***************************************************************************)
SP == " "
NL == "\n"
TAB == "\t"

Whitespace == {SP, NL, TAB}
Letters == {"a", "i", "x", "n", "o", "v", "e", "l"}
Digits == {"7"}
Tags == {"<p>", "</p>", "<script>", "</script>"}

Min(a, b) == IF a < b THEN a ELSE b
Max(a, b) == IF a > b THEN a ELSE b

\* s repeated n times
Rep(s, n) == [k \in 1 .. (n * Len(s)) |-> s[((k - 1) % Len(s)) + 1]]

\* the subsequence of s at the positions K
Pick(s, K) ==
    [i \in 1 .. Cardinality(K) |-> s[CHOOSE k \in K : Cardinality({j \in K : j <= k}) = i]]

\* the positions of s that hold a token of the set T
Positions(s, T) == {k \in 1 .. Len(s) : s[k] \in T}

\* the pieces of s that are not empty, in order
RECURSIVE DropEmpty(_)
DropEmpty(s) ==
    IF s = <<>> THEN <<>>
    ELSE (IF Head(s) # <<>> THEN <<Head(s)>> ELSE <<>>) \o DropEmpty(Tail(s))

\* len(s) of a raw string: a markup token counts its characters
TokLen(t) ==
    CASE t = "<p>" -> 3
      [] t = "</p>" -> 4
      [] t = "<script>" -> 8
      [] t = "</script>" -> 9
      [] OTHER -> 1

CharLen(s) ==
    Len(s) + Cardinality(Positions(s, {"<p>"})) * (TokLen("<p>") - 1)
           + Cardinality(Positions(s, {"</p>"})) * (TokLen("</p>") - 1)
           + Cardinality(Positions(s, {"<script>"})) * (TokLen("<script>") - 1)
           + Cardinality(Positions(s, {"</script>"})) * (TokLen("</script>") - 1)

\* str.strip()
Strip(s) ==
    LET solid == {k \in 1 .. Len(s) : s[k] \notin Whitespace}
    IN IF solid = {} THEN <<>>
       ELSE SubSeq(s, CHOOSE k \in solid : \A j \in solid : k <= j,
                      CHOOSE k \in solid : \A j \in solid : k >= j)

\* re.split on single tokens of the set sep: the pieces, empty ones included
SplitOn(s, sep) ==
    LET cuts == Positions(s, sep)
        cut(m) == IF m = 0 THEN 0
                  ELSE IF m = Cardinality(cuts) + 1 THEN Len(s) + 1
                  ELSE CHOOSE k \in cuts : Cardinality({j \in cuts : j <= k}) = m
    IN [m \in 1 .. (Cardinality(cuts) + 1) |-> SubSeq(s, cut(m - 1) + 1, cut(m) - 1)]

\* sep.join(pieces)
RECURSIVE Join(_, _)
Join(pieces, sep) ==
    IF pieces = <<>> THEN <<>>
    ELSE IF Len(pieces) = 1 THEN pieces[1]
    ELSE pieces[1] \o <<sep>> \o Join(Tail(pieces), sep)

\* needle matches s at position k
MatchAt(s, needle, k) ==
    k + Len(needle) - 1 <= Len(s) /\ SubSeq(s, k, k + Len(needle) - 1) = needle

\* `needle in s`
Contains(s, needle) == \E k \in 1 .. Len(s) : MatchAt(s, needle, k)

\* s.count(needle): the occurrences from the left that do not overlap
RECURSIVE CountFrom(_, _, _)
CountFrom(s, needle, from) ==
    LET hits == {k \in from .. Len(s) : MatchAt(s, needle, k)}
    IN IF hits = {} THEN 0
       ELSE 1 + CountFrom(s, needle, (CHOOSE k \in hits : \A j \in hits : k <= j) + Len(needle))

Count(s, needle) == CountFrom(s, needle, 1)

(***************************************************************************)
(* ContentCleaner.                                                         *)
(***************************************************************************)
\* a token inside a script element: an opening tag before it is not closed
InScript(s, k) ==
    \E j \in 1 .. (k - 1) :
        s[j] = "<script>" /\ \A m \in (j + 1) .. (k - 1) : s[m] # "</script>"

\* clean_html: the elements of remove_tags are dropped with their content
clean_html(html_content) ==
    IF html_content = <<>> THEN <<>>
    ELSE Pick(html_content,
              {k \in 1 .. Len(html_content) :
                  html_content[k] \notin {"<script>", "</script>"}
                  /\ ~InScript(html_content, k)})

\* _extract_text: get_text(separator='\n', strip=True): the text nodes, each
\* stripped, the empty ones dropped, joined by a newline
StripAll(pieces) == [k \in 1 .. Len(pieces) |-> Strip(pieces[k])]

extract_text(html_content) == Join(DropEmpty(StripAll(SplitOn(html_content, Tags))), NL)

\* re.sub(r'[\t\r\f\v]+', ' ', text) then re.sub(r' +', ' ', text)
CollapseSpaces(s) ==
    LET blank == {SP, TAB}
        spaced == [k \in 1 .. Len(s) |-> IF s[k] \in blank THEN SP ELSE s[k]]
    IN Pick(spaced, {k \in 1 .. Len(s) : ~(s[k] \in blank /\ k < Len(s) /\ s[k + 1] \in blank)})

\* the whitespace run of s around position k (s[k] is whitespace)
RunStart(s, k) ==
    CHOOSE a \in 1 .. k :
        (\A j \in a .. k : s[j] \in Whitespace) /\ (a = 1 \/ s[a - 1] \notin Whitespace)
RunEnd(s, k) ==
    CHOOSE b \in k .. Len(s) :
        (\A j \in k .. b : s[j] \in Whitespace) /\ (b = Len(s) \/ s[b + 1] \notin Whitespace)
RunNewlines(s, k) == {j \in RunStart(s, k) .. RunEnd(s, k) : s[j] = NL}

\* re.sub(r'\n\s*\n\s*\n+', '\n\n', text): in a whitespace run that holds three
\* newlines or more, the stretch from its first to its last newline becomes two
\* newlines
SqueezeNewlines(s) ==
    LET squeezed(k) ==
            /\ s[k] \in Whitespace
            /\ Cardinality(RunNewlines(s, k)) >= 3
            /\ \E f \in RunNewlines(s, k) : f < k
            /\ \E l \in RunNewlines(s, k) : k < l
    IN Pick(s, {k \in 1 .. Len(s) : ~squeezed(k)})

normalize_whitespace(text) ==
    IF text = <<>> THEN <<>> ELSE Strip(SqueezeNewlines(CollapseSpaces(text)))

\* re.sub(r'([\.!?])\1+', r'\1', text)
CollapsePunct(s) ==
    Pick(s, {k \in 1 .. Len(s) : ~(s[k] = "!" /\ k < Len(s) /\ s[k + 1] = "!")})

\* str.isdigit()
IsDigit(line) == line # <<>> /\ \A k \in 1 .. Len(line) : line[k] \in Digits

KeepLine(line) == Len(line) > 10 \/ (line # <<>> /\ ~IsDigit(line))

RECURSIVE KeepLines(_)
KeepLines(lines) ==
    IF lines = <<>> THEN <<>>
    ELSE (IF KeepLine(Head(lines)) THEN <<Head(lines)>> ELSE <<>>) \o KeepLines(Tail(lines))

\* remove_noise: the noise words are Chinese and cannot be spelled in the
\* alphabet of the model
remove_noise(text) ==
    IF text = <<>> THEN <<>>
    ELSE Join(KeepLines(StripAll(SplitOn(CollapsePunct(text), {NL}))), NL)

\* re.search(r'[a-zA-Z]{3,}', text)
HasEnglish(text) ==
    \E k \in 1 .. (Len(text) - 2) : \A j \in k .. (k + 2) : text[j] \in Letters

\* re.findall(r'[^\w\s\u4e00-\u9fa5]', text)
SpecialChars(text) ==
    Cardinality({k \in 1 .. Len(text) : text[k] \notin Letters \cup Digits \cup Whitespace})

\* _calculate_quality_score, in 1/10^4
calculate_quality_score(cleaned_text, raw_content) ==
    IF cleaned_text = <<>> THEN 0
    ELSE LET len == Len(cleaned_text)
             s1 == IF len < 100 THEN 5000 ELSE IF len < 300 THEN 8000 ELSE 10000
             raw == CharLen(raw_content)
             s2 == IF raw_content = <<>> THEN s1
                   ELSE IF len * 10 < raw THEN (s1 * 7) \div 10
                   ELSE IF len * 10 > 9 * raw THEN (s1 * 9) \div 10
                   ELSE s1
             s3 == IF ~HasEnglish(cleaned_text) THEN (s2 * 3) \div 10 ELSE s2
             s4 == IF SpecialChars(cleaned_text) * 10 > 3 * Max(len, 1)
                   THEN (s3 * 8) \div 10 ELSE s3
         IN Max(0, Min(10000, s4))

\* ContentCleaner.clean
clean(raw_content) ==
    LET text == remove_noise(normalize_whitespace(extract_text(clean_html(raw_content))))
    IN [cleaned_content |-> text,
        quality_score |-> calculate_quality_score(text, raw_content)]

(***************************************************************************)
(* KeywordExtractor.  jieba's TF-IDF and TextRank keep only words whose    *)
(* part of speech is in allowPOS; the words of the model's alphabet are    *)
(* Latin ("eng") and pass neither filter, so the keywords of a text are    *)
(* the terms of the AI gazetteer found in it.  Of ai_terms, ai_indicators, *)
(* the entity patterns and the topic indicators only 'ai' can be spelled   *)
(* in the alphabet.                                                        *)
(***************************************************************************)
AiTerm == <<"a", "i">>

\* _extract_ai_keywords: one keyword per gazetteer term found, score
\* min(1.0, count * 0.3), in 1/10^3
extract_ai_keywords(text) ==
    IF Contains(text, AiTerm)
    THEN <<[term |-> AiTerm, score |-> Min(1000, Count(text, AiTerm) * 300)]>>
    ELSE <<>>

\* extract_keywords(text, max_keywords, domain = "AI")
extract_keywords(text, max_keywords) ==
    IF text = <<>> THEN <<>>
    ELSE SubSeq(extract_ai_keywords(text), 1,
                Min(max_keywords, Len(extract_ai_keywords(text))))

\* extract_entities: no organisation or product pattern matches a text of the
\* alphabet
extract_entities(text) == <<>>

\* extract_topics: no topic indicator is a substring of 'ai'
extract_topics(text) == <<>>

(***************************************************************************)
(* ContentScorer.                                                          *)
(***************************************************************************)
\* self.weights, in 1/10^2
WeightTimeliness == 25
WeightAuthority == 20
WeightRelevance == 20
WeightEngagement == 15
WeightQuality == 10
WeightUniqueness == 10

\* _calculate_timeliness, in 1/10^4; publish_time < 0 stands for None
calculate_timeliness(publish_time, clock) ==
    IF publish_time < 0 THEN 3000
    ELSE LET age == clock - publish_time
         IN IF age < 1 THEN 10000
            ELSE IF age < 6 THEN 9000
            ELSE IF age < 24 THEN 8000
            ELSE IF age < 72 THEN 6000
            ELSE IF age < 168 THEN 4000
            ELSE IF age < 720 THEN 2000
            ELSE 1000

\* self.authority_sources, restricted to the sources of the model; 0: no entry
\* of the table is a substring of the source
AuthorityOf(source) ==
    CASE source = "openai" -> 10000
      [] source = "techcrunch" -> 8000
      [] OTHER -> 0

\* _calculate_authority, in 1/10^4
calculate_authority(source, base_authority) ==
    IF source = "" THEN base_authority
    ELSE IF AuthorityOf(source) > 0 THEN Max(AuthorityOf(source), base_authority)
    ELSE IF base_authority > 0 THEN base_authority
    ELSE 5000

\* _calculate_relevance, in 1/10^4; categories is the set of the categories.
\* The Chinese category names are written in pinyin: jishu, yanjiu,
\* rengongzhineng (and hangyedongtai, the default category).
AiCategories == {"jishu", "yanjiu", "AI", "rengongzhineng", "Technology", "Research"}

calculate_relevance(keywords, categories) ==
    LET ai_keyword_count ==
            Cardinality({k \in 1 .. Len(keywords) : Contains(keywords[k].term, AiTerm)})
        s1 == 5000 + (IF ai_keyword_count > 0 THEN Min(3000, ai_keyword_count * 1000) ELSE 0)
        s2 == s1 + (IF categories \cap AiCategories # {} THEN 2000 ELSE 0)
    IN Min(10000, s2)

\* _calculate_engagement of the empty metrics map process_content passes
calculate_engagement == 5000

\* _calculate_uniqueness, in 1/10^4; of unique_terms only 'novel' can be spelled
UniqueTerms == {<<"n", "o", "v", "e", "l">>}

calculate_uniqueness(keywords) ==
    IF keywords = <<>> THEN 5000
    ELSE Min(10000,
             5000 + 1000 * Cardinality({t \in UniqueTerms :
                        \E k \in 1 .. Len(keywords) : Contains(keywords[k].term, t)}))

\* self.important_keywords, in 1/10^3: the keys 'novel' and 'breakthrough', the
\* lowest and the highest factor among the keys a title of the model spells
Breakthrough == <<"b", "r", "e", "a", "k", "t", "h", "r", "o", "u", "g", "h">>

ImportantKeywords ==
    { [keyword |-> <<"n", "o", "v", "e", "l">>, factor |-> 800],
      [keyword |-> Breakthrough, factor |-> 1000] }

\* the title part of _calculate_boost_factor, in 1/10^3:
\* boost = max(boost, 1.0 + (factor - 1.0) * 0.5) over the keywords in the title
RECURSIVE TitleBoost(_, _, _)
TitleBoost(title, table, boost) ==
    IF table = {} THEN boost
    ELSE LET e == CHOOSE x \in table : TRUE
         IN TitleBoost(title, table \ {e},
                       IF Contains(title, e.keyword)
                       THEN Max(boost, 1000 + (e.factor - 1000) \div 2)
                       ELSE boost)

\* _calculate_boost_factor, in 1/10^3
calculate_boost_factor(content) ==
    LET b1 == IF content.title # <<>> THEN TitleBoost(content.title, ImportantKeywords, 1000)
              ELSE 1000
        orgs == Cardinality({k \in 1 .. Len(content.entities) : content.entities[k].label = "ORG"})
        b2 == IF orgs >= 3 THEN (b1 * 11) \div 10 ELSE b1
        b3 == IF content.quality_score > 8000 THEN (b2 * 105) \div 100 ELSE b2
    IN b3

\* a number field that holds None: a value no score of the model takes
NoneNumber == 0 - 1000000

\* the weighted sum of the factor scores times the boost factor, in 1/10^9
BoostedTotal(content, clock) ==
    LET total_score ==
              calculate_timeliness(content.publish_time, clock) * WeightTimeliness
            + calculate_authority(content.source, content.source_authority) * WeightAuthority
            + calculate_relevance(content.keywords, content.categories) * WeightRelevance
            + calculate_engagement * WeightEngagement
            + content.quality_score * WeightQuality
            + calculate_uniqueness(content.keywords) * WeightUniqueness
    IN total_score * calculate_boost_factor(content)

\* a result that is returned as computed
Unclamped(total) == total

\* max(0.0, min(1.0, total_score)), in 1/10^9
Clamped(total) == Max(0, Min(1000000000, total))

\* the try block of calculate_importance raises: arithmetic on a quality_score
\* or a source_authority that is None is a TypeError
ImportanceRaises(content) ==
    content.quality_score = NoneNumber \/ content.source_authority = NoneNumber

\* the score returned from the except branch, in 1/10^9
DefaultImportance == 500000000

\* calculate_importance, in 1/10^9
calculate_importance(content, clock) ==
    IF ImportanceRaises(content) THEN DefaultImportance
    ELSE Clamped(BoostedTotal(content, clock))

(***************************************************************************)
(* The documents of the model (CollectedData).                             *)
(***************************************************************************)
\* `if len(cleaned_content) < 50`
MinContentLength == 50

Word == <<"a", "i", SP, "x", "x", SP>>
WordMarkup == <<"a", "i", TAB, SP, "x", "x", NL>>

\* a body that cleans to more than MinContentLength characters
BodyA == Rep(Word, Blocks)
\* the words of BodyA with other whitespace, in markup, with a script element
BodyA2 == <<"<p>">> \o Rep(WordMarkup, Blocks) \o <<"</p>", "<script>", "x", "!", "</script>">>
\* another text, of exactly MinContentLength characters
BodyB == <<"<p>">> \o Rep(<<"x">>, MinContentLength) \o <<"</p>">>
\* a text one character short of MinContentLength
BodyShort == <<"<p>">> \o Rep(<<"x">>, MinContentLength - 1) \o <<"</p>", SP, NL>>

Bodies == {<<>>, BodyShort, BodyA, BodyA2, BodyB}
Titles == {<<>>, <<"a", "i">>, <<"n", "o", "v", "e", "l">>}
Urls == {<<>>, <<"u", "1">>, <<"u", "2">>}

AllDocs ==
    [title : Titles, url : Urls, content : Bodies, source : {"technews"},
     publish_time : {0}, tags : {{}}]

\* the documents handed to process_content: the bodies that pass the length
\* check under every URL, and under one URL the other titles and bodies
Docs ==
    {d \in AllDocs :
        \/ d.title = <<"a", "i">> /\ d.content \in {BodyA, BodyA2, BodyB}
        \/ d.url = <<"u", "1">> /\ d.title # <<"a", "i">> /\ d.content = BodyA
        \/ d.url = <<"u", "1">> /\ d.title = <<"a", "i">>}

\* the documents of a batch
BatchDocs ==
    {d \in AllDocs :
        \/ d.title = <<"a", "i">> /\ d.url # <<>> /\ d.content = BodyA
        \/ d.title = <<"a", "i">> /\ d.url = <<"u", "2">> /\ d.content = BodyB
        \/ d.title = <<>> /\ d.url = <<"u", "1">> /\ d.content = BodyA}

\* the documents of the caller beside the batch
OtherDocs == {d \in BatchDocs : d.title # <<>> /\ d.url = <<"u", "1">>}

\* the batches: the lists of at most MaxBatch documents
Batches == UNION {[1 .. n -> BatchDocs] : n \in 0 .. MaxBatch}

(***************************************************************************)
(* DataProcessor: the synchronous part of process_content.                 *)
(***************************************************************************)
\* a hash of the text as it is, without the normalisation
raw_content_hash(content) == content

\* _calculate_content_hash: ' '.join(content.split()), then sha256
calculate_content_hash(content) == Join(DropEmpty(SplitOn(content, Whitespace)), SP)

\* the cleaning result and what is extracted from it, once per body
CleanTable == [b \in Bodies |-> clean(b)]
KeywordTable == [b \in Bodies |-> extract_keywords(CleanTable[b].cleaned_content, 20)]
EntityTable == [b \in Bodies |-> extract_entities(CleanTable[b].cleaned_content)]
TopicTable == [b \in Bodies |-> extract_topics(CleanTable[b].cleaned_content)]
HashTable == [b \in Bodies |-> calculate_content_hash(CleanTable[b].cleaned_content)]

\* _categorize_content: no topic and no keyword of the alphabet maps to a
\* category, which leaves the default category
categorize_content(keywords, topics, tags) ==
    LET categories == {}
    IN IF categories = {} THEN {"hangyedongtai"} ELSE categories

\* `if not collected_data.title`
TitleMissing(doc) == doc.title = <<>>

\* a length check that lets a text one character short pass
TooShortByOne(cleaned_content) == Len(cleaned_content) < MinContentLength - 1

\* `if len(cleaned_content) < 50`
TooShort(cleaned_content) == Len(cleaned_content) < MinContentLength

\* the ProcessedContent built from a document, scored at time clock
BuildProcessed(doc, id, clock) ==
    LET b == doc.content
        content0 ==
            [content_id |-> id,
             title |-> doc.title,
             cleaned_content |-> CleanTable[b].cleaned_content,
             keywords |-> KeywordTable[b],
             entities |-> EntityTable[b],
             categories |-> categorize_content(KeywordTable[b], TopicTable[b], doc.tags),
             quality_score |-> CleanTable[b].quality_score,
             source |-> doc.source,
             publish_time |-> doc.publish_time,
             url |-> doc.url,
             source_authority |-> 7000,
             importance_score |-> 0]
    IN [content0 EXCEPT !.importance_score = calculate_importance(content0, clock)]

\* the keys of the two namespaces of the dedup cache
UrlKey(url) == <<"processed_url", url>>
HashKey(content_hash) == <<"content_hash", content_hash>>

(***************************************************************************)
(* The state.                                                              *)
(*   redis_client  whether the processor was built with a cache client     *)
(*   cache         the live keys of the dedup cache                        *)
(*   now           the clock, in hours; the calls of a run fall into one   *)
(*                 hour                                                    *)
(*   inv           the process_content invocations: slot 0 is a caller's   *)
(*                 own call, slots 1 .. MaxBatch are the tasks of a batch  *)
(*   dup           the caller's is_duplicate call                          *)
(*   batch         the batch_process call                                  *)
(*   last          the caller's previous process_content call (history)    *)
(*   submitted     the texts handed to is_duplicate so far: seen, and      *)
(*                 spoiled, those of them a failed cache call or an expiry *)
(*                 has touched (history)                                   *)
(*   agg           the caller of the ContentAggregator                     *)
(*   scoring       the caller of the ContentScorer                         *)
(*   coll          the caller of DataCollector.deduplicate                 *)
(***************************************************************************)
Slots == 0 .. MaxBatch

NoDoc ==
    [title |-> <<>>, url |-> <<>>, content |-> <<>>, source |-> "",
     publish_time |-> 0, tags |-> {}]

\* An invocation.  pc: "idle", "lookup" (awaiting exists), "mark_url" and
\* "mark_hash" (awaiting set), "done" (returned), "cancelled".  result: the
\* ProcessedContent, if any.  log: the level of the last log record of the
\* document.  steps: the stages run, in order.  History: lookup (how the URL
\* lookup ended), set_failed (a set raised), expired (of the caller's own
\* call: an entry expired since the call began), marked_at_start (the URL
\* entry was live when the call began, and since).
IdleInv ==
    [pc |-> "idle", id |-> 0, doc |-> NoDoc, result |-> <<>>, log |-> "none",
     steps |-> <<>>, lookup |-> "none", set_failed |-> FALSE, expired |-> FALSE,
     marked_at_start |-> FALSE]

\* An is_duplicate call.  first: no earlier call had a text of the same words.
IdleDup ==
    [pc |-> "idle", content |-> <<>>, result |-> FALSE, failed |-> FALSE,
     first |-> FALSE]

\* A batch_process call.  status: "idle", "running", "returned", "raised".
\* History: quiet (nothing but the tasks of the batch has acted since the
\* call: no failed cache call, no raised stage, no expiry, no other
\* caller), cache0 and now0 (the cache and the clock at the call).
IdleBatch ==
    [status |-> "idle", docs |-> <<>>, results |-> <<>>, quiet |-> TRUE,
     cancelled |-> FALSE, cache0 |-> {}, now0 |-> 0]

\* clean: the call passed the checks, met no live URL entry when it began, no
\* failed cache call, no raised stage and no expiry
NoCall ==
    [op |-> "none", url |-> <<>>, hash |-> <<>>, clean |-> FALSE, returned |-> FALSE]

\* the caller of the ContentAggregator has made no call: the list it holds,
\* the corpus it put there, the operation it called last with its arguments,
\* what the call returned and whether it raised
IdleAgg ==
    [contents |-> <<>>, given |-> <<>>, op |-> "none", args |-> <<>>,
     result |-> <<>>, raised |-> FALSE]

\* the caller of the ContentScorer has made no call: the content it scores,
\* the hour of the call, and what calculate_importance returned
IdleScoring == [content |-> <<>>, clock |-> 0, result |-> <<>>]

\* the caller of DataCollector.deduplicate has made no call.  pc: "idle",
\* "exists" and "set" (awaiting the cache), "done" (returned).  data_list and
\* deduplicated hold the data_id of the items, k is the place of the item the
\* loop is at.  History: found (the places the cache answered "exists" for),
\* spoiled (a cache call has raised or an entry has expired), admitted (the
\* hashes of the items that earlier calls returned, kept as long as the cache
\* is not spoiled).
IdleColl ==
    [pc |-> "idle", data_list |-> <<>>, k |-> 1, seen_urls |-> {}, seen_hashes |-> {},
     deduplicated |-> <<>>, found |-> {}, admitted |-> {}, spoiled |-> FALSE]

Init ==
    /\ redis_client \in BOOLEAN
    /\ agg = IdleAgg
    /\ scoring = IdleScoring
    /\ coll = IdleColl
    /\ cache = {}
    /\ now = 0
    /\ inv = [i \in Slots |-> IdleInv]
    /\ dup = IdleDup
    /\ batch = IdleBatch
    /\ last = NoCall
    /\ submitted = [seen |-> {}, spoiled |-> {}]

(***************************************************************************)
(* process_content, between its awaits.                                    *)
(***************************************************************************)
\* a processor that never goes to the cache
UsesCacheNever(client, url) == FALSE

\* a processor that goes to the cache for a document without a URL too
UsesCacheAnyUrl(client, url) == client

\* _is_already_processed and _mark_as_processed go to the cache
UsesCache(client, url) == client /\ url # <<>>

\* a lookup that takes a raised exists for "already processed"
is_already_processed_or_raised(ok, present) == IF ok THEN present ELSE TRUE

\* a lookup that never finds an entry
is_already_processed_never(ok, present) == FALSE

\* _is_already_processed: the answer of exists, False when exists raised
is_already_processed(ok, present) == IF ok THEN present ELSE FALSE

\* a process_content that marks the document it skips for its length
PipelineMarksSkipped(r, client, clock, fault) ==
    LET r1 == [r EXCEPT !.steps = Append(@, "clean")]
    IN IF UsesCache(client, r.doc.url)
       THEN [r1 EXCEPT !.pc = "mark_url"]
       ELSE [r1 EXCEPT !.pc = "done", !.log = "warning"]

\* process_content from the cleaning to the return or to the first set; fault:
\* a stage after the length check raises, which `except Exception` turns into
\* a logged error and no result
Pipeline(r, client, clock, fault) ==
    LET cleaned_content == CleanTable[r.doc.content].cleaned_content
        r1 == [r EXCEPT !.steps = Append(@, "clean")]
    IN IF TooShort(cleaned_content)
       THEN [r1 EXCEPT !.pc = "done", !.log = "warning"]
       ELSE IF fault
       THEN [r1 EXCEPT !.pc = "done", !.log = "error", !.steps = Append(@, "extract")]
       ELSE LET r2 == [r1 EXCEPT !.result = <<BuildProcessed(r.doc, r.id, clock)>>,
                                 !.steps = @ \o <<"extract", "score">>]
            IN IF UsesCache(client, r.doc.url)
               THEN [r2 EXCEPT !.pc = "mark_url"]
               ELSE [r2 EXCEPT !.pc = "done", !.log = "info", !.steps = Append(@, "mark")]

\* process_content from its call to its first await
Begun(doc, id, client, keys, clock, fault) ==
    LET r0 == [IdleInv EXCEPT !.id = id, !.doc = doc, !.steps = <<"title">>,
                              !.marked_at_start =
                                  UsesCache(client, doc.url) /\ UrlKey(doc.url) \in keys]
    IN IF TitleMissing(doc) THEN [r0 EXCEPT !.pc = "done", !.log = "warning"]
       ELSE IF UsesCache(client, doc.url) THEN [r0 EXCEPT !.pc = "lookup"]
       ELSE Pipeline([r0 EXCEPT !.lookup = "skipped"], client, clock, fault)

\* a process_content that cleans, extracts and scores while exists is under
\* way, and looks at its answer afterwards
LookedLate(r, ok, client, keys, clock, fault) ==
    LET present == UrlKey(r.doc.url) \in keys
        p == Pipeline(r, client, clock, fault)
        p1 == [p EXCEPT !.steps = Append(@, "lookup"),
                        !.lookup = IF ~ok THEN "failed"
                                   ELSE IF present THEN "hit" ELSE "miss"]
    IN IF is_already_processed(ok, present)
       THEN [p1 EXCEPT !.pc = "done", !.log = "info", !.result = <<>>]
       ELSE p1

\* process_content when exists answers (ok) or raises
Looked(r, ok, client, keys, clock, fault) ==
    LET present == UrlKey(r.doc.url) \in keys
        r1 == [r EXCEPT !.steps = Append(@, "lookup"),
                        !.lookup = IF ~ok THEN "failed"
                                   ELSE IF present THEN "hit" ELSE "miss"]
    IN IF is_already_processed(ok, present)
       THEN [r1 EXCEPT !.pc = "done", !.log = "info"]
       ELSE Pipeline(r1, client, clock, fault)

\* a ProcessedContent was returned
Returned(r) == r.pc = "done" /\ r.result # <<>>

\* the document passes the title and minimum-length checks
Valid(doc) == ~TitleMissing(doc) /\ ~TooShort(CleanTable[doc.content].cleaned_content)

\* something other than a task of the running batch acts
Disturb(b) == IF b.status = "running" THEN [b EXCEPT !.quiet = FALSE] ELSE b

\* exists answers, or raises, for invocation i
LookupReply(i, ok, fault) ==
    /\ inv[i].pc = "lookup"
    /\ inv' = [inv EXCEPT ![i] = Looked(inv[i], ok, redis_client, cache, now, fault)]
    /\ batch' = IF ~ok \/ i = 0 \/ inv'[i].log = "error" THEN Disturb(batch) ELSE batch
    /\ UNCHANGED <<redis_client, cache, now, last, dup, submitted, agg, scoring, coll>>

\* the set of the URL key is done, or raises, for invocation i
SetUrlReply(i, ok) ==
    /\ inv[i].pc = "mark_url"
    /\ IF ok
       THEN /\ cache' = cache \cup {UrlKey(inv[i].doc.url)}
            /\ inv' = [inv EXCEPT ![i].pc = "mark_hash", ![i].steps = Append(@, "mark")]
       ELSE /\ cache' = cache
            /\ inv' = [inv EXCEPT ![i].pc = "done", ![i].log = "info",
                                  ![i].set_failed = TRUE, ![i].steps = Append(@, "mark")]
    /\ batch' = IF ~ok \/ i = 0 THEN Disturb(batch) ELSE batch
    /\ UNCHANGED <<redis_client, now, last, dup, submitted, agg, scoring, coll>>

\* the set of the content-hash key is done, or raises, for invocation i
SetHashReply(i, ok) ==
    /\ inv[i].pc = "mark_hash"
    /\ IF ok
       THEN /\ cache' = cache \cup {HashKey(HashTable[inv[i].doc.content])}
            /\ inv' = [inv EXCEPT ![i].pc = "done", ![i].log = "info"]
       ELSE /\ cache' = cache
            /\ inv' = [inv EXCEPT ![i].pc = "done", ![i].log = "info",
                                  ![i].set_failed = TRUE]
    /\ batch' = IF ~ok \/ i = 0 THEN Disturb(batch) ELSE batch
    /\ UNCHANGED <<redis_client, now, last, dup, submitted, agg, scoring, coll>>

(***************************************************************************)
(* The environment: TTL expiry.                                            *)
(***************************************************************************)
\* the texts handed to is_duplicate whose entry is the key
SpoiledBy(key) == {c \in submitted.seen : HashKey(calculate_content_hash(c)) = key}

\* the TTL of a key runs out
Expire(key) ==
    /\ key \in cache
    /\ cache' = cache \ {key}
    /\ inv' = [i \in Slots |->
                 [inv[i] EXCEPT !.expired = @ \/ (i = 0 /\ inv[i].pc # "idle"),
                                !.marked_at_start = @ /\ key # UrlKey(inv[i].doc.url)]]
    /\ submitted' = [submitted EXCEPT !.spoiled = @ \cup SpoiledBy(key)]
    /\ batch' = Disturb(batch)
    /\ UNCHANGED <<redis_client, now, last, dup, agg, scoring, coll>>

(***************************************************************************)
(* A caller that calls process_content, one call after the other.          *)
(***************************************************************************)
\* the call that has just ended, for the history
EndedCall ==
    IF inv[0].pc = "done"
    THEN [op |-> "process", url |-> inv[0].doc.url,
          hash |-> HashTable[inv[0].doc.content],
          clean |-> /\ Valid(inv[0].doc) /\ ~inv[0].marked_at_start
                    /\ inv[0].lookup # "failed" /\ ~inv[0].set_failed
                    /\ inv[0].log # "error" /\ ~inv[0].expired,
          returned |-> Returned(inv[0])]
    ELSE last

\* the caller calls process_content(doc), which runs to its first await
CallProcess(doc, fault) ==
    /\ inv[0].pc \in {"idle", "done"}
    /\ last' = EndedCall
    /\ inv' = [inv EXCEPT ![0] = Begun(doc, 0, redis_client, cache, now, fault)]
    /\ UNCHANGED <<redis_client, cache, now, dup, submitted, batch, agg, scoring, coll>>

Next ==
    \/ \E doc \in Docs, fault \in BOOLEAN : CallProcess(doc, fault)
    \/ \E ok \in BOOLEAN, fault \in BOOLEAN : LookupReply(0, ok, fault)
    \/ \E ok \in BOOLEAN : SetUrlReply(0, ok)
    \/ \E ok \in BOOLEAN : SetHashReply(0, ok)
    \/ \E key \in cache : Expire(key)

Spec == Init /\ [][Next]_vars

(***************************************************************************)
(* A caller that calls is_duplicate, one call after the other.             *)
(***************************************************************************)
\* the texts handed to is_duplicate: two with the same words, another, and a
\* cleaned body
DupContents ==
    {<<"a", "i", SP, "x">>, <<SP, "a", "i", TAB, NL, "x", NL>>, <<"x">>,
     CleanTable[BodyA2].cleaned_content}

\* two texts have the same words, whatever the whitespace between them
SameWords(c1, c2) ==
    DropEmpty(SplitOn(c1, Whitespace)) = DropEmpty(SplitOn(c2, Whitespace))

\* the caller calls is_duplicate(content), which runs to its first await
CallIsDuplicate(content) ==
    /\ dup.pc \in {"idle", "done"}
    /\ dup' = [IdleDup EXCEPT !.content = content,
                              !.pc = IF redis_client THEN "exists" ELSE "done",
                              !.first = \A c \in submitted.seen : ~SameWords(c, content)]
    /\ submitted' = [submitted EXCEPT !.seen = @ \cup {content}]
    /\ UNCHANGED <<redis_client, cache, now, inv, last, batch, agg, scoring, coll>>

\* is_duplicate when exists answers (ok) or raises
DupExists(ok) ==
    /\ dup.pc = "exists"
    /\ dup' = IF ~ok THEN [dup EXCEPT !.pc = "done", !.result = FALSE, !.failed = TRUE]
              ELSE IF HashKey(calculate_content_hash(dup.content)) \in cache
              THEN [dup EXCEPT !.pc = "done", !.result = TRUE]
              ELSE [dup EXCEPT !.pc = "set"]
    /\ submitted' = IF ok THEN submitted
                    ELSE [submitted EXCEPT !.spoiled = @ \cup {dup.content}]
    /\ UNCHANGED <<redis_client, cache, now, inv, last, batch, agg, scoring, coll>>

\* is_duplicate when its set is done (ok) or raises
DupSet(ok) ==
    /\ dup.pc = "set"
    /\ IF ok
       THEN /\ cache' = cache \cup {HashKey(calculate_content_hash(dup.content))}
            /\ submitted' = submitted
            /\ dup' = [dup EXCEPT !.pc = "done", !.result = FALSE]
       ELSE /\ cache' = cache
            /\ submitted' = [submitted EXCEPT !.spoiled = @ \cup {dup.content}]
            /\ dup' = [dup EXCEPT !.pc = "done", !.result = FALSE, !.failed = TRUE]
    /\ UNCHANGED <<redis_client, now, inv, last, batch, agg, scoring, coll>>

NextDup ==
    \/ \E content \in DupContents : CallIsDuplicate(content)
    \/ \E ok \in BOOLEAN : DupExists(ok)
    \/ \E ok \in BOOLEAN : DupSet(ok)
    \/ \E key \in cache : Expire(key)

SpecDup == Init /\ [][NextDup]_vars

(***************************************************************************)
(* batch_process.                                                          *)
(***************************************************************************)
\* a gather that hands the results back last task first
GatheredReversed(n) == [i \in 1 .. n |-> inv[n + 1 - i].result]

\* what gather hands back: the results of the tasks, in the order of the list
Gathered(n) == [i \in 1 .. n |-> inv[i].result]

\* a filter that gives up the whole batch when one task has no result
SuccessesOrNothing(results) ==
    IF \E k \in 1 .. Len(results) : results[k] = <<>> THEN <<>>
    ELSE [k \in 1 .. Len(results) |-> results[k][1]]

\* the filter of batch_process: the ProcessedContent values, in order
Successes(results) ==
    LET kept == SelectSeq(results, LAMBDA r : r # <<>>)
    IN [k \in 1 .. Len(kept) |-> kept[k][1]]

\* the place of element i after sort(key=importance_score, reverse=True), a
\* stable sort
Rank(s, i) ==
    1 + Cardinality({j \in 1 .. Len(s) :
            \/ s[j].importance_score > s[i].importance_score
            \/ s[j].importance_score = s[i].importance_score /\ j < i})

\* a sort by ascending score
SortAscending(s) ==
    [k \in 1 .. Len(s) |->
        s[CHOOSE i \in 1 .. Len(s) :
            k = 1 + Cardinality({j \in 1 .. Len(s) :
                    \/ s[j].importance_score < s[i].importance_score
                    \/ s[j].importance_score = s[i].importance_score /\ j < i})]]

SortByScore(s) == [k \in 1 .. Len(s) |-> s[CHOOSE i \in 1 .. Len(s) : Rank(s, i) = k]]

\* batch_process is called: an empty list is answered at once; otherwise
\* gather makes a task of every document and each task runs, in the order of
\* the list, to its first await
BatchCall(docs, faults) ==
    /\ batch.status = "idle"
    /\ IF docs = <<>>
       THEN /\ batch' = [batch EXCEPT !.status = "returned"]
            /\ inv' = inv
       ELSE /\ inv' = [i \in Slots |->
                         IF i \in 1 .. Len(docs)
                         THEN Begun(docs[i], i, redis_client, cache, now, i \in faults)
                         ELSE inv[i]]
            /\ batch' = [batch EXCEPT
                           !.status = "running", !.docs = docs,
                           !.cache0 = cache, !.now0 = now,
                           !.quiet = /\ inv[0].pc \in {"idle", "done"}
                                     /\ \A i \in 1 .. Len(docs) : inv'[i].log # "error"]
    /\ UNCHANGED <<redis_client, cache, now, last, dup, submitted, agg, scoring, coll>>

\* every task is done: the results are filtered, sorted and returned
BatchReturn ==
    /\ batch.status = "running"
    /\ \A i \in 1 .. Len(batch.docs) : inv[i].pc = "done"
    /\ batch' = [batch EXCEPT
                   !.status = "returned",
                   !.results = SortByScore(Successes(Gathered(Len(batch.docs))))]
    /\ UNCHANGED <<redis_client, cache, now, inv, last, dup, submitted, agg, scoring, coll>>

\* the tasks that await a set
Pending == {i \in 1 .. Len(batch.docs) : inv[i].pc \in {"mark_url", "mark_hash"}}

PendingKey(i) ==
    IF inv[i].pc = "mark_url" THEN UrlKey(inv[i].doc.url)
    ELSE HashKey(HashTable[inv[i].doc.content])

\* the task that awaits batch_process is cancelled (by a deadline or by its
\* owner): gather cancels the tasks that are not done, CancelledError is no
\* Exception, and batch_process ends with it.  A set that was under way may
\* or may not have reached the cache (sent).
Cancel(sent) ==
    /\ batch.status = "running"
    /\ sent \subseteq Pending
    /\ cache' = cache \cup {PendingKey(i) : i \in sent}
    /\ inv' = [i \in Slots |->
                 IF i \in 1 .. Len(batch.docs) /\ inv[i].pc # "done"
                 THEN [inv[i] EXCEPT !.pc = "cancelled", !.result = <<>>]
                 ELSE inv[i]]
    /\ batch' = [batch EXCEPT !.status = "raised", !.cancelled = TRUE]
    /\ UNCHANGED <<redis_client, now, last, dup, submitted, agg, scoring, coll>>

NextBatch ==
    \/ \E docs \in Batches : \E faults \in SUBSET (1 .. Len(docs)) : BatchCall(docs, faults)
    \/ \E i \in Slots, ok \in BOOLEAN, fault \in BOOLEAN : LookupReply(i, ok, fault)
    \/ \E i \in Slots, ok \in BOOLEAN : SetUrlReply(i, ok)
    \/ \E i \in Slots, ok \in BOOLEAN : SetHashReply(i, ok)
    \/ BatchReturn
    \/ \E sent \in SUBSET Pending : Cancel(sent)
    \/ \E key \in cache : Expire(key)

SpecBatch == Init /\ [][NextBatch]_vars

(***************************************************************************)
(* A batch of documents of one URL, and a caller of process_content that   *)
(* may call at any time beside it.                                         *)
(***************************************************************************)
\* a caller beside the batch calls process_content(doc), once
OtherCall(doc, fault) ==
    /\ inv[0].pc = "idle"
    /\ inv' = [inv EXCEPT ![0] = Begun(doc, 0, redis_client, cache, now, fault)]
    /\ batch' = Disturb(batch)
    /\ UNCHANGED <<redis_client, cache, now, last, dup, submitted, agg, scoring, coll>>

\* the batches that repeat one document
SameUrlBatches == {docs \in Batches : \A i \in 1 .. Len(docs) : docs[i] \in OtherDocs}

NextOverlap ==
    \/ \E docs \in SameUrlBatches : \E faults \in SUBSET (1 .. Len(docs)) : BatchCall(docs, faults)
    \/ \E i \in Slots, ok \in BOOLEAN, fault \in BOOLEAN : LookupReply(i, ok, fault)
    \/ \E i \in Slots, ok \in BOOLEAN : SetUrlReply(i, ok)
    \/ \E i \in Slots, ok \in BOOLEAN : SetHashReply(i, ok)
    \/ BatchReturn
    \/ \E doc \in OtherDocs, fault \in BOOLEAN : OtherCall(doc, fault)
    \/ \E key \in cache : Expire(key)

SpecOverlap == Init /\ [][NextOverlap]_vars

(***************************************************************************)
(* Properties of process_content called sequentially (Spec).               *)
(***************************************************************************)
\* the caller's call under way, or its last one
Cur == inv[0]

\* the length of the cleaned text of a document
CleanedLen(doc) == Len(CleanTable[doc.content].cleaned_content)

\* the call met no failed cache call, no raised stage and no expiry
Undisturbed(r) ==
    /\ r.lookup # "failed" /\ ~r.set_failed /\ r.log # "error" /\ ~r.expired

\* two calls in a row, on a processor with a cache, the first one clean, the
\* second ended and undisturbed, both documents passing the checks
TwoCalls ==
    /\ redis_client
    /\ last.op = "process" /\ last.clean
    /\ Cur.pc = "done" /\ Valid(Cur.doc) /\ Undisturbed(Cur)

\* C1: with a cache and no expiry, of two sequential calls on documents of the
\* same non-empty URL that pass the checks, the first returns a
\* ProcessedContent and the second returns no result: exactly one does.
C1_SameUrlOnce ==
    (TwoCalls /\ Cur.doc.url = last.url /\ last.url # <<>>)
        => (last.returned /\ Cur.result = <<>>)

\* the second of two calls on the same URL, with another body, has ended
C1_Witness ==
    /\ TwoCalls /\ Cur.doc.url = last.url /\ last.url # <<>>
    /\ HashTable[Cur.doc.content] # last.hash
    /\ last.returned /\ Cur.result = <<>>

\* C2, as the specification states it: with a cache and no expiry, of two
\* sequential calls on documents of different URLs whose cleaned texts have
\* the same hash, exactly one returns a ProcessedContent.
C2_SameContentOnce ==
    (/\ TwoCalls /\ Cur.doc.url # last.url /\ last.url # <<>> /\ Cur.doc.url # <<>>
     /\ ~Cur.marked_at_start
     /\ HashTable[Cur.doc.content] = last.hash)
        => (last.returned /\ Cur.result = <<>>)

\* C7: a document without title, without body, or whose cleaned text is
\* shorter than 50 characters gets no result, its rejection is logged as a
\* skip (a warning, or the note that the URL is known), and it is neither
\* scored nor marked.
C7_RejectsIncomplete ==
    \A i \in Slots :
        (/\ inv[i].pc # "idle"
         /\ \/ inv[i].doc.title = <<>>
            \/ inv[i].doc.content = <<>>
            \/ CleanedLen(inv[i].doc) < MinContentLength)
            => /\ inv[i].result = <<>>
               /\ inv[i].pc \in {"lookup", "done"}
               /\ inv[i].pc = "done" => inv[i].log \in {"warning", "info"}
               /\ \A k \in 1 .. Len(inv[i].steps) :
                      inv[i].steps[k] \in {"title", "lookup", "clean"}

\* a titled document whose body cleans to one character less than the
\* minimum was looked up, cleaned and rejected
C7_Witness ==
    /\ Cur.pc = "done" /\ Cur.doc.title # <<>>
    /\ CleanedLen(Cur.doc) = MinContentLength - 1
    /\ Cur.lookup = "miss" /\ Cur.result = <<>> /\ Cur.log = "warning"

\* C8: without a cache client, or when an exists or a set raises, a document
\* that passes the checks (and whose pipeline does not raise) still gets its
\* ProcessedContent.
C8_CacheBestEffort ==
    (/\ Cur.pc = "done" /\ Valid(Cur.doc) /\ Cur.log # "error"
     /\ (~redis_client \/ Cur.lookup = "failed" \/ Cur.set_failed))
        => Cur.result # <<>>

\* the lookup of a marked URL raised and the document was processed
C8_Witness ==
    /\ redis_client /\ Cur.pc = "done" /\ Cur.marked_at_start
    /\ Cur.lookup = "failed" /\ Cur.result # <<>>

(***************************************************************************)
(* Properties of is_duplicate called sequentially (SpecDup).               *)
(***************************************************************************)
\* C9: on a processor with a cache, the first call for a text returns False
\* (also for a text unlike those seen before); a later call for a text of the
\* same words returns True, as long as no cache call for such a text has
\* failed and its entry has not expired.
C9_IsDuplicate ==
    (redis_client /\ dup.pc = "done")
        => /\ dup.first => ~dup.result
           /\ (/\ ~dup.first
               /\ \A c \in submitted.spoiled : ~SameWords(c, dup.content))
                  => dup.result

\* a text is found to be a duplicate of an earlier one with other whitespace
C9_Witness ==
    /\ redis_client /\ dup.pc = "done" /\ dup.result
    /\ submitted.spoiled = {}
    /\ \E c \in submitted.seen : c # dup.content /\ SameWords(c, dup.content)
    /\ \E c \in submitted.seen : ~SameWords(c, dup.content)

(***************************************************************************)
(* Properties of batch_process (SpecBatch, SpecOverlap).                   *)
(***************************************************************************)
\* the tasks of the batch
Tasks == 1 .. Len(batch.docs)

\* C3: invocations of the same URL that overlap may all be admitted, but an
\* invocation that begins when the URL entry is written and live, and whose
\* lookup the cache answers, returns no result.
C3_AtMostOnceEventually ==
    \A i \in Slots :
        (inv[i].pc = "done" /\ inv[i].marked_at_start /\ inv[i].lookup # "failed")
            => inv[i].result = <<>>

\* two tasks of one batch were both admitted for the same URL, and a call that
\* began after their marks was turned away
C3_Witness ==
    /\ Len(batch.docs) = 2
    /\ batch.docs[1].url = batch.docs[2].url
    /\ Returned(inv[1]) /\ Returned(inv[2])
    /\ inv[0].pc = "done" /\ inv[0].doc.url = batch.docs[1].url
    /\ inv[0].marked_at_start /\ inv[0].lookup = "hit" /\ inv[0].result = <<>>

\* the URLs of the batch are pairwise distinct
DistinctUrls ==
    \A i, j \in Tasks : i # j => batch.docs[i].url # batch.docs[j].url

\* what the batch returns when every task sees the cache of the call
Expected ==
    LET admitted(i) ==
            /\ Valid(batch.docs[i])
            /\ ~(/\ UsesCache(redis_client, batch.docs[i].url)
                 /\ UrlKey(batch.docs[i].url) \in batch.cache0)
    IN SortByScore(Successes(
           [i \in Tasks |->
               IF admitted(i) THEN <<BuildProcessed(batch.docs[i], i, batch.now0)>>
               ELSE <<>>]))

\* C4: when batch_process returns, every task is done and the results are in
\* non-increasing order of importance_score; for pairwise distinct URLs (and
\* nothing but the tasks acting) the list is a function of the batch and of
\* the cache at the call, whatever the interleaving of the tasks.
C4_JoinedSortedDeterministic ==
    batch.status = "returned"
        => /\ \A i \in Tasks : inv[i].pc = "done"
           /\ \A k \in 1 .. Len(batch.results) - 1 :
                  batch.results[k].importance_score
                      >= batch.results[k + 1].importance_score
           /\ (DistinctUrls /\ batch.quiet) => batch.results = Expected

\* a batch of two came back with its second document first
C4_Witness ==
    /\ batch.status = "returned" /\ batch.quiet /\ DistinctUrls
    /\ Len(batch.results) = 2
    /\ batch.results[1].content_id = 2
    /\ batch.results[1].importance_score > batch.results[2].importance_score

\* C5, as the specification states it: a batch that is cancelled (by a
\* deadline or by its owner) returns what it has collected; it never ends by
\* raising.
C5_CancelReturnsPartial == batch.cancelled => batch.status = "returned"

\* C6: batch_process raises only when it is cancelled, and when it returns,
\* whatever tasks failed or were skipped, the results are exactly the
\* ProcessedContent values of the other tasks.
C6_FailureNeverAborts ==
    /\ batch.status = "raised" => batch.cancelled
    /\ batch.status = "returned"
           => /\ {batch.results[k] : k \in 1 .. Len(batch.results)}
                    = {inv[i].result[1] : i \in {j \in Tasks : inv[j].result # <<>>}}
              /\ Len(batch.results) = Cardinality({j \in Tasks : inv[j].result # <<>>})

\* a batch returned the result of one task next to a task whose pipeline raised
C6_Witness ==
    /\ batch.status = "returned" /\ Len(batch.docs) = 2
    /\ \E i, j \in Tasks : inv[i].log = "error" /\ inv[j].result # <<>>
    /\ Len(batch.results) = 1

\* a batch of one valid document repeated, called on an empty cache, nothing
\* but its tasks acting
SameDocs ==
    /\ Len(batch.docs) >= 1
    /\ \A i \in Tasks : batch.docs[i] = batch.docs[1]
    /\ Valid(batch.docs[1])
    /\ batch.cache0 = {} /\ batch.quiet

MaxCorpus == 3
\* resolution of the aggregator's clock
TicksPerHour == 2

NoValue == [t |-> "none", n |-> 0, s |-> "", l |-> <<>>]
Num(x) == [t |-> "num", n |-> x, s |-> "", l |-> <<>>]
Str(x) == [t |-> "str", n |-> 0, s |-> x, l |-> <<>>]
List(x) == [t |-> "list", n |-> 0, s |-> "", l |-> x]
\* {"views": x}, and {} when x < 0
Dict(x) == [t |-> "dict", n |-> x, s |-> "", l |-> IF x < 0 THEN <<>> ELSE <<"views">>]

Aware(hours) == <<[wall |-> hours * TicksPerHour, tzinfo |-> "utc"]>>
Naive(hours) == <<[wall |-> hours * TicksPerHour, tzinfo |-> "naive"]>>

\* the value an operation returns when it does not raise
Returns(value) == [raised |-> FALSE, value |-> value]

Kw(term, score) == [term |-> term, score |-> score]
Ent(text, label) == [text |-> text, label |-> label]

\* the fields of ProcessedContent the aggregator reads
PC(id, title, score, cats, kws, ents, src, senti, metrics, pub, proc) ==
    [content_id |-> id, title |-> title, importance_score |-> score,
     categories |-> cats, keywords |-> kws, entities |-> ents, source |-> src,
     sentiment |-> senti, engagement_metrics |-> metrics,
     publish_time |-> pub, processing_time |-> proc]

\* the pool: scores with a tie, one and several categories and none, keywords
\* above and below the default min_score, entities of two labels, a source
\* that is None, metrics that are None, empty and filled, times that are
\* aware, naive and None, two documents published at the same time
AggDocs ==
    { PC("c1", <<"A", "I">>, 700000000, <<"jishu", "yanjiu">>,
         <<Kw("AI", 8000), Kw("topic0", 6000)>>, <<Ent("OpenAI", "ORG")>>,
         Str("TechNews"), "positive", Dict(500), Aware(10), Aware(12)),
      PC("c2", <<SP, "a", "i", SP>>, 900000000, <<"hangye", "yingyong">>,
         <<Kw("AI", 8000), Kw("topic1", 4000)>>,
         <<Ent("OpenAI", "ORG"), Ent("Altman", "PERSON")>>,
         Str("TechNews"), "neutral", Dict(-1), <<>>, Aware(11)),
      PC("c3", <<"x">>, 700000000, <<>>, <<>>, <<>>,
         NoValue, "", NoValue, <<>>, <<>>),
      PC("c4", <<"n", "o", "v", "e", "l">>, 500000000, <<"jishu">>,
         <<Kw("topic0", 6000)>>, <<Ent("Altman", "PERSON")>>,
         Str("Arxiv"), "negative", Dict(50), Naive(8), Aware(12)),
      PC("c5", <<"a", "i">>, 600000000, <<"yingyong">>,
         <<Kw("topic1", 5000), Kw("AI", 8000)>>, <<Ent("Altman", "PERSON")>>,
         Str("Arxiv"), "positive", Dict(100), Aware(13), Aware(13)),
      PC("c6", <<"y">>, 600000000, <<"hangye">>, <<>>, <<>>,
         Str("TechNews"), "", NoValue, Aware(10), <<>>) }

\* sample_contents of the unit tests, made at the hour base_time
SampleSize == 15
SampleBase == 20

sample_contents ==
    [k \in 1 .. SampleSize |->
        LET i == k - 1
        IN PC("content_" \o ToString(i), <<"A", "I", SP, ToString(i)>>,
              500000000 + (i % 5) * 100000000,
              IF i % 2 = 0 THEN <<"jishu", "yanjiu">> ELSE <<"hangye", "yingyong">>,
              <<Kw("AI", 8000), Kw("topic" \o ToString(i % 3), 6000)>>, <<>>,
              Str("TechNews"), "", NoValue, Aware(SampleBase - i), <<>>)]

\* the corpora a caller holds: the pool's documents in any order, no document
\* twice, and the sample
Corpora ==
    { c \in UNION {[1 .. n -> AggDocs] : n \in 0 .. MaxCorpus} :
        \A i, j \in DOMAIN c : i # j => c[i] # c[j] }
    \cup {sample_contents}

(***************************************************************************)
(* apply_filters.                                                          *)
(***************************************************************************)
\* hasattr(value, part) for a ProcessedContent and the fields of the model
HasAttr(part) ==
    part \in {"importance_score", "source", "categories", "engagement_metrics",
              "entities"}

\* getattr(value, part)
GetAttr(obj, part) ==
    CASE part = "importance_score" -> Num(obj.importance_score)
      [] part = "source" -> obj.source
      [] part = "categories" -> List(obj.categories)
      [] part = "engagement_metrics" -> obj.engagement_metrics
      [] part = "entities" -> List(obj.entities)

\* a lookup that goes through a list to its first element: the second part of
\* the path is read from the first entity
NestedThroughList(obj, path, default) ==
    IF ~HasAttr(path[1]) THEN default
    ELSE LET value == GetAttr(obj, path[1])
         IN IF Len(path) = 1 THEN value
            ELSE IF value.t = "list" /\ path = <<"entities", "label">> /\ value.l # <<>>
                 THEN Str(value.l[1].label)
                 ELSE default

\* _get_nested_value; path is path.split("."), of one or two parts.  No field
\* value has an attribute that a path of the model names (a list has no
\* attribute of the name of a field of its elements), so the second part is
\* looked up with dict.get or gives the default.
get_nested_value(obj, path, default) ==
    IF ~HasAttr(path[1]) THEN default
    ELSE LET value == GetAttr(obj, path[1])
         IN IF Len(path) = 1 THEN value
            ELSE IF value.t = "dict"
                 THEN IF \E k \in 1 .. Len(value.l) : value.l[k] = path[2]
                      THEN Num(value.n) ELSE NoValue
                 ELSE default

\* the conditions of a filter spec: a dict of operators (keys in the order the
\* code tests them), a list of values, or a plain value
CondDict(keys, gte, lte, among) ==
    [kind |-> "dict", keys |-> keys, gte |-> gte, lte |-> lte, among |-> among,
     any |-> <<>>, eq |-> NoValue]
CondList(values) ==
    [kind |-> "list", keys |-> {}, gte |-> NoValue, lte |-> NoValue, among |-> <<>>,
     any |-> values, eq |-> NoValue]
CondValue(v) ==
    [kind |-> "value", keys |-> {}, gte |-> NoValue, lte |-> NoValue, among |-> <<>>,
     any |-> <<>>, eq |-> v]

\* a >= b and a <= b raise TypeError unless both sides are ordered with each
\* other; the thresholds of the model are numbers
Ordered(a, b) == a.t = "num" /\ b.t = "num"

\* a comparison that leaves the threshold itself out
GteStrict(a, b) == a.n > b.n

Gte(a, b) == a.n >= b.n

Lte(a, b) == a.n <= b.n

\* value in values, values a list: equality with one of its elements
Among(value, values) == \E k \in 1 .. Len(values) : values[k] = value

\* val in container, val a string: an element of a list, a key of a dict, a
\* substring of a string (no string of the model is part of another one);
\* TypeError when the container is None or a number
Iterable(container) == container.t \in {"list", "dict", "str"}

IsIn(val, container) ==
    IF container.t = "str" THEN val = container.s
    ELSE \E k \in 1 .. Len(container.l) : container.l[k] = val

\* a choice of the operator that tests the keys in the opposite order
LastOperator(keys) ==
    IF "$in" \in keys THEN "$in"
    ELSE IF "$lte" \in keys THEN "$lte"
    ELSE IF "$gte" \in keys THEN "$gte"
    ELSE "none"

\* the if / elif / elif chain over the keys of a condition dict: the operator
\* whose branch runs, "none" when no test succeeds
Operator(keys) ==
    IF "$gte" \in keys THEN "$gte"
    ELSE IF "$lte" \in keys THEN "$lte"
    ELSE IF "$in" \in keys THEN "$in"
    ELSE "none"

\* one turn of the loop over filters.items(): the list comprehension of the
\* branch the condition selects; raised when a document's test raises
FilterStep(filtered_contents, field, condition) ==
    LET v(c) == get_nested_value(c, field, NoValue)
        w(c) == get_nested_value(c, field, List(<<>>))
        docs == {filtered_contents[k] : k \in 1 .. Len(filtered_contents)}
    IN IF condition.kind = "dict"
       THEN IF Operator(condition.keys) = "$gte"
            THEN [raised |-> \E c \in docs : ~Ordered(v(c), condition.gte),
                  value |-> SelectSeq(filtered_contents,
                                LAMBDA c : Gte(v(c), condition.gte))]
            ELSE IF Operator(condition.keys) = "$lte"
            THEN [raised |-> \E c \in docs : ~Ordered(v(c), condition.lte),
                  value |-> SelectSeq(filtered_contents,
                                LAMBDA c : Lte(v(c), condition.lte))]
            ELSE IF Operator(condition.keys) = "$in"
            THEN [raised |-> FALSE,
                  value |-> SelectSeq(filtered_contents,
                                LAMBDA c : Among(v(c), condition.among))]
            ELSE [raised |-> FALSE, value |-> filtered_contents]
       ELSE IF condition.kind = "list"
       THEN [raised |-> condition.any # <<>> /\ \E c \in docs : ~Iterable(w(c)),
             value |-> SelectSeq(filtered_contents,
                           LAMBDA c : \E k \in 1 .. Len(condition.any) :
                                          IsIn(condition.any[k], w(c)))]
       ELSE [raised |-> FALSE,
             value |-> SelectSeq(filtered_contents, LAMBDA c : v(c) = condition.eq)]

RECURSIVE FilterFrom(_, _, _)
FilterFrom(filtered_contents, filters, k) ==
    IF k > Len(filters) THEN [raised |-> FALSE, value |-> filtered_contents]
    ELSE LET r == FilterStep(filtered_contents, filters[k].field, filters[k].condition)
         IN IF r.raised THEN [raised |-> TRUE, value |-> <<>>]
            ELSE FilterFrom(r.value, filters, k + 1)

\* apply_filters; filters is the sequence of filters.items()
apply_filters(contents, filters) == FilterFrom(contents, filters, 1)

F(field, condition) == [field |-> field, condition |-> condition]

\* the threshold and the list of test_apply_filters
Threshold == 700000000

\* the filter specs a caller passes
FilterSpecs ==
    { <<>>,
      <<F(<<"importance_score">>, CondDict({"$gte"}, Num(Threshold), NoValue, <<>>))>>,
      <<F(<<"importance_score">>, CondDict({"$gte"}, Num(Threshold), NoValue, <<>>)),
        F(<<"categories">>, CondList(<<"jishu">>))>>,
      <<F(<<"categories">>, CondList(<<"jishu", "yingyong">>)),
        F(<<"importance_score">>, CondDict({"$lte"}, NoValue, Num(Threshold), <<>>))>>,
      <<F(<<"importance_score">>,
          CondDict({"$gte", "$lte"}, Num(Threshold), Num(Threshold + 100000000), <<>>))>>,
      <<F(<<"importance_score">>, CondDict({"$gt"}, NoValue, NoValue, <<>>))>>,
      <<F(<<"importance_score">>,
          CondDict({"$lte", "$in"}, NoValue, Num(Threshold), <<Num(900000000)>>))>>,
      <<F(<<"importance_score">>,
          CondDict({"$gte", "$lte", "$in"}, Num(Threshold), Num(Threshold),
                   <<Num(500000000)>>))>>,
      <<F(<<"importance_score">>, CondValue(Num(Threshold)))>>,
      <<F(<<"importance_score">>,
          CondDict({"$in"}, NoValue, NoValue, <<Num(500000000), Num(900000000)>>))>>,
      <<F(<<"source">>, CondValue(Str("TechNews")))>>,
      <<F(<<"source">>, CondDict({"$in"}, NoValue, NoValue, <<Str("TechNews"), Str("Arxiv")>>))>>,
      <<F(<<"source">>, CondList(<<"Arxiv">>))>>,
      <<F(<<"source">>, CondDict({"$gte"}, Num(1), NoValue, <<>>))>>,
      <<F(<<"engagement_metrics", "views">>, CondDict({"$gte"}, Num(100), NoValue, <<>>))>>,
      <<F(<<"engagement_metrics", "views">>, CondDict({"$lte"}, NoValue, Num(100), <<>>))>>,
      <<F(<<"engagement_metrics", "views">>, CondValue(Num(100)))>>,
      <<F(<<"engagement_metrics", "views">>,
          CondDict({"$in"}, NoValue, NoValue, <<Num(50), Num(100)>>))>>,
      <<F(<<"engagement_metrics">>, CondList(<<"views">>))>>,
      <<F(<<"entities", "label">>, CondValue(Str("ORG")))>>,
      <<F(<<"priority">>, CondValue(Str("high")))>>,
      <<F(<<"priority">>, CondDict({"$gte"}, Num(1), NoValue, <<>>))>>,
      <<F(<<"priority">>, CondDict({"$lte"}, NoValue, Num(1), <<>>))>>,
      <<F(<<"priority">>, CondDict({"$in"}, NoValue, NoValue, <<Str("high")>>))>>,
      <<F(<<"priority">>, CondList(<<"high">>))>> }

(***************************************************************************)
(* sort_by_importance and limit_items.                                     *)
(***************************************************************************)
\* a descending sort that is the reverse of a stable ascending one: documents
\* of equal score come out in reverse input order
SortTiesReversed(contents) ==
    [k \in 1 .. Len(contents) |-> SortAscending(contents)[Len(contents) + 1 - k]]

\* sort_by_importance: sorted(contents, key=importance_score, reverse=True)
sort_by_importance(contents) == SortByScore(contents)

\* a slice that is one element too long
LimitOneMore(contents, max_items) ==
    SubSeq(contents, 1, Min(Len(contents), max_items + 1))

\* limit_items: contents[:max_items]; a negative max_items counts from the end
limit_items(contents, max_items) ==
    LET stop == IF max_items < 0 THEN Max(0, Len(contents) + max_items)
                ELSE Min(Len(contents), max_items)
    IN SubSeq(contents, 1, stop)

\* max_items of test_limit_items_per_section
TestMaxItems == 5

\* the values of max_items a caller passes
MaxItems == (-1 .. MaxCorpus + 1) \cup {TestMaxItems}

(***************************************************************************)
(* The groupings.                                                          *)
(***************************************************************************)
\* the appends to the defaultdict, in the order the loops make them: keys[k]
\* is the sequence of keys document k is appended under
RECURSIVE Appended(_, _, _)
Appended(contents, keys, k) ==
    IF k > Len(contents) THEN <<>>
    ELSE [j \in 1 .. Len(keys[k]) |-> [key |-> keys[k][j], content |-> contents[k]]]
         \o Appended(contents, keys, k + 1)

\* the defaultdict after the appends: its items, the keys in insertion order
Grouped(appended) ==
    LET first == {i \in 1 .. Len(appended) :
                     \A j \in 1 .. i - 1 : appended[j].key # appended[i].key}
        order == Pick(appended, first)
    IN [g \in 1 .. Len(order) |->
           LET items == SelectSeq(appended, LAMBDA a : a.key = order[g].key)
           IN <<order[g].key, [i \in 1 .. Len(items) |-> items[i].content]>>]

\* every list of the dict sorted in place with sort(key=importance_score,
\* reverse=True)
EachSorted(items) == [g \in 1 .. Len(items) |-> <<items[g][1], SortByScore(items[g][2])>>]

\* sorted(items, key=lambda x: len(x[1]), reverse=True), a stable sort
RankBySize(items, i) ==
    1 + Cardinality({j \in 1 .. Len(items) :
            \/ Len(items[j][2]) > Len(items[i][2])
            \/ Len(items[j][2]) = Len(items[i][2]) /\ j < i})

SortBySize(items) ==
    [k \in 1 .. Len(items) |-> items[CHOOSE i \in 1 .. Len(items) : RankBySize(items, i) = k]]

\* aggregate_by_category; "weifenlei" is the name of the group of the
\* documents without a category
aggregate_by_category(contents) ==
    LET keys == [k \in 1 .. Len(contents) |->
                    IF contents[k].categories # <<>> THEN contents[k].categories
                    ELSE <<"weifenlei">>]
    IN EachSorted(Grouped(Appended(contents, keys, 1)))

\* content.source or "weizhilaiyuan", the name of the unknown source
SourceName(content) ==
    IF content.source.t = "none" \/ content.source.s = "" THEN "weizhilaiyuan"
    ELSE content.source.s

\* aggregate_by_source
aggregate_by_source(contents) ==
    LET keys == [k \in 1 .. Len(contents) |-> <<SourceName(contents[k])>>]
    IN EachSorted(Grouped(Appended(contents, keys, 1)))

\* the default of min_score, in 1/10^4
DefaultMinScore == 5000

\* aggregate_by_keywords
aggregate_by_keywords(contents, min_score) ==
    LET keys == [k \in 1 .. Len(contents) |->
                    LET kept == SelectSeq(contents[k].keywords,
                                          LAMBDA keyword : keyword.score >= min_score)
                    IN [j \in 1 .. Len(kept) |-> kept[j].term]]
    IN SortBySize(Grouped(Appended(contents, keys, 1)))

\* aggregate_by_entity; entity_type is None or a label
aggregate_by_entity(contents, entity_type) ==
    LET keys == [k \in 1 .. Len(contents) |->
                    LET kept == SelectSeq(contents[k].entities,
                                    LAMBDA entity : \/ entity_type = NoValue
                                                    \/ entity.label = entity_type.s)
                    IN [j \in 1 .. Len(kept) |-> kept[j].text]]
    IN SortBySize(Grouped(Appended(contents, keys, 1)))

(***************************************************************************)
(* aggregate_by_time_range and sort_by_time.                               *)
(***************************************************************************)
\* dt.replace(tzinfo=timezone.utc) of a naive datetime, the datetime itself
\* when it is aware
AsUtc(dt) == IF dt[1].tzinfo = "naive" THEN <<[dt[1] EXCEPT !.tzinfo = "utc"]>> ELSE dt

\* a <= b between a naive and an aware datetime raises TypeError
Mixed(a, b) == a[1].tzinfo # b[1].tzinfo

\* a range test that leaves out the two bounds
InRangeExclusive(start_time, t, end_time) ==
    start_time[1].wall < t[1].wall /\ t[1].wall < end_time[1].wall

\* a range test that forgets the lower bound
InRangeUpperOnly(start_time, t, end_time) == t[1].wall <= end_time[1].wall

\* start_time <= t <= end_time
InRange(start_time, t, end_time) ==
    start_time[1].wall <= t[1].wall /\ t[1].wall <= end_time[1].wall

\* the time a document is tested with: publish_time, else processing_time,
\* made aware; None when it has neither
TestedTime(content) ==
    IF content.publish_time # <<>> THEN AsUtc(content.publish_time)
    ELSE IF content.processing_time # <<>> THEN AsUtc(content.processing_time)
    ELSE <<>>

\* aggregate_by_time_range
aggregate_by_time_range(contents, start_time, end_time) ==
    IF contents = <<>> THEN Returns(<<>>)
    ELSE LET from == AsUtc(start_time)
             to == AsUtc(end_time)
         IN [raised |-> \E k \in 1 .. Len(contents) :
                            /\ TestedTime(contents[k]) # <<>>
                            /\ \/ Mixed(from, TestedTime(contents[k]))
                               \/ Mixed(TestedTime(contents[k]), to),
             value |-> SelectSeq(contents,
                           LAMBDA c : /\ TestedTime(c) # <<>>
                                      /\ InRange(from, TestedTime(c), to))]

\* a datetime some ticks later
Shift(dt, ticks) == <<[dt[1] EXCEPT !.wall = @ + ticks]>>

\* the hours of the window of test_aggregate_by_time_range
WindowHours == 6

\* the windows a caller asks for: over the times of the pool, with aware and
\* naive bounds, one of them empty; and the window of the test, which ends
\* when the test runs, at base_time or within the hour after it
Windows ==
    { <<Aware(10), Aware(12)>>, <<Naive(8), Naive(11)>>, <<Aware(11), Naive(13)>>,
      <<Aware(12), Aware(10)>> }
    \cup { <<Shift(Aware(SampleBase - WindowHours), late), Shift(Aware(SampleBase), late)>> :
             late \in 0 .. TicksPerHour - 1 }

\* datetime.min.replace(tzinfo=timezone.utc): before every time of the model
DatetimeMin == <<[wall |-> 0 - 1, tzinfo |-> "utc"]>>

\* a key that reads publish_time only
PublishTimeOnly(content) ==
    IF content.publish_time # <<>> THEN content.publish_time ELSE DatetimeMin

\* get_time of sort_by_time
get_time(content) ==
    IF content.publish_time # <<>> THEN content.publish_time
    ELSE IF content.processing_time # <<>> THEN content.processing_time
    ELSE DatetimeMin

\* the place of element i after sorted(key=get_time, reverse=not ascending),
\* a stable sort
RankByTime(contents, i, ascending) ==
    1 + Cardinality({j \in 1 .. Len(contents) :
            \/ /\ ascending
               /\ get_time(contents[j])[1].wall < get_time(contents[i])[1].wall
            \/ /\ ~ascending
               /\ get_time(contents[j])[1].wall > get_time(contents[i])[1].wall
            \/ /\ get_time(contents[j])[1].wall = get_time(contents[i])[1].wall
               /\ j < i})

\* sort_by_time: the keys are compared as they are, so a naive publish_time
\* next to an aware time raises TypeError
sort_by_time(contents, ascending) ==
    [raised |-> \E i, j \in 1 .. Len(contents) :
                    Mixed(get_time(contents[i]), get_time(contents[j])),
     value |-> [k \in 1 .. Len(contents) |->
                   contents[CHOOSE i \in 1 .. Len(contents) :
                                RankByTime(contents, i, ascending) = k]]]

(***************************************************************************)
(* calculate_statistics and deduplicate_by_title.                          *)
(***************************************************************************)
RECURSIVE SumScores(_, _)
SumScores(contents, k) ==
    IF k > Len(contents) THEN 0
    ELSE contents[k].importance_score \div 100000 + SumScores(contents, k + 1)

\* round(a / b, 3), in 1/10^3, of a sum a in 1/10^4 (the scores of the
\* aggregator's documents are whole in that unit): the nearest thousandth (no
\* average of the model lies halfway between two)
RoundedAverage(a, b) == (2 * a + 10 * b) \div (20 * b)

\* the counters of a defaultdict(int): the keys in insertion order
Counted(items) == [g \in 1 .. Len(items) |-> <<items[g][1], Len(items[g][2])>>]

\* datetime.isoformat(): the wall time, and the offset of an aware datetime
isoformat(dt) ==
    [wall |-> dt[1].wall, offset |-> IF dt[1].tzinfo = "utc" THEN "+00:00" ELSE ""]

\* calculate_statistics; min and max compare the times as they are
calculate_statistics(contents) ==
    IF contents = <<>>
    THEN Returns([total_count |-> 0, avg_importance_score |-> 0, categories |-> <<>>,
                  sources |-> <<>>, sentiment_distribution |-> <<>>, date_range |-> <<>>])
    ELSE LET total_count == Len(contents)
             by(keys) == Counted(Grouped(Appended(contents, keys, 1)))
             category_stats == by([k \in 1 .. Len(contents) |-> contents[k].categories])
             source_stats == by([k \in 1 .. Len(contents) |-> <<SourceName(contents[k])>>])
             sentiment_stats ==
                 by([k \in 1 .. Len(contents) |->
                        IF contents[k].sentiment # "" THEN <<contents[k].sentiment>>
                        ELSE <<>>])
             timed == SelectSeq(contents,
                          LAMBDA c : c.publish_time # <<>> \/ c.processing_time # <<>>)
             times == [k \in 1 .. Len(timed) |-> get_time(timed[k])]
             min_time == times[CHOOSE i \in 1 .. Len(times) :
                             \A j \in 1 .. Len(times) : times[i][1].wall <= times[j][1].wall]
             max_time == times[CHOOSE i \in 1 .. Len(times) :
                             \A j \in 1 .. Len(times) : times[i][1].wall >= times[j][1].wall]
         IN [raised |-> \E i, j \in 1 .. Len(times) : Mixed(times[i], times[j]),
             value |->
               [total_count |-> total_count,
                avg_importance_score |-> RoundedAverage(SumScores(contents, 1), total_count),
                categories |-> category_stats,
                sources |-> source_stats,
                sentiment_distribution |-> sentiment_stats,
                date_range |->
                    IF times = <<>> THEN <<>>
                    ELSE <<[start |-> isoformat(min_time), end |-> isoformat(max_time),
                            days |-> (max_time[1].wall - min_time[1].wall)
                                         \div (24 * TicksPerHour) + 1]>>]]

\* str.lower() on the letters of the model
Lower(title) ==
    [k \in 1 .. Len(title) |->
        CASE title[k] = "A" -> "a" [] title[k] = "I" -> "i" [] OTHER -> title[k]]

\* deduplicate_by_title: the first document of every title.lower().strip()
deduplicate_by_title(contents) ==
    Pick(contents, {i \in 1 .. Len(contents) :
            \A j \in 1 .. i - 1 :
                Strip(Lower(contents[j].title)) # Strip(Lower(contents[i].title))})

(***************************************************************************)
(* ReportGenerator._generate_section_content: the filters of the section,  *)
(* its limit, and the payload of its type.  The section types that ask a   *)
(* language model for text are not part of the model.                      *)
(***************************************************************************)
\* max_items of the section of test_generate_section_content
TestSectionItems == 3

\* max_items of the section company_updates of the weekly template
CompanyUpdatesItems == 10

\* the slice [:10] of the groups of a grouped_list
MaxGroups == 10

\* filters of the section company_updates of the weekly template
CompanyUpdatesFilters == <<F(<<"entities", "label">>, CondValue(Str("ORG")))>>

\* a ReportSection; max_items = 0 stands for None and for 0, filters = <<>>
\* for None and for {}: the code tests both for truth only
Section(section_type, max_items, filters) ==
    [section_type |-> section_type, max_items |-> max_items, filters |-> filters]

\* the item _generate_news_list builds for a document
NewsItem(content) ==
    [title |-> content.title, source |-> content.source,
     publish_time |-> IF content.publish_time # <<>>
                      THEN <<isoformat(content.publish_time)>> ELSE <<>>,
     importance_score |-> content.importance_score]

generate_news_list(contents) ==
    LET items == [k \in 1 .. Len(contents) |-> NewsItem(contents[k])]
    IN [type |-> "news_list", items |-> items, groups |-> <<>>, count |-> Len(items)]

\* the entries built from the items of a grouping
GroupEntries(grouping) ==
    [g \in 1 .. Len(grouping) |->
        [name |-> grouping[g][1],
         items |-> generate_news_list(grouping[g][2]).items,
         count |-> Len(grouping[g][2])]]

generate_categorized_list(contents) ==
    [type |-> "categorized_list", items |-> <<>>,
     groups |-> GroupEntries(aggregate_by_category(contents)),
     count |-> Len(contents)]

generate_grouped_list(contents) ==
    LET entity_grouped == aggregate_by_entity(contents, Str("ORG"))
    IN [type |-> "grouped_list", items |-> <<>>,
        groups |-> GroupEntries(SubSeq(entity_grouped, 1,
                                       Min(Len(entity_grouped), MaxGroups))),
        count |-> Len(contents)]

\* a limit step that is skipped
NoLimit(section_contents, max_items) == section_contents

\* the limit step: limit_items when max_items is true
SectionLimit(section_contents, max_items) ==
    IF max_items # 0 THEN limit_items(section_contents, max_items)
    ELSE section_contents

\* _generate_section_content: what it was shaped from, and the payload
generate_section_content(section, contents) ==
    LET filtered == IF section.filters # <<>> THEN apply_filters(contents, section.filters)
                    ELSE Returns(contents)
        section_contents == SectionLimit(filtered.value, section.max_items)
        payload ==
            CASE section.section_type = "news_list" -> generate_news_list(section_contents)
              [] section.section_type = "categorized_list" ->
                     generate_categorized_list(section_contents)
              [] section.section_type = "grouped_list" ->
                     generate_grouped_list(section_contents)
              [] OTHER -> [type |-> section.section_type, items |-> <<>>,
                           groups |-> <<>>, count |-> 0]
    IN IF filtered.raised THEN [raised |-> TRUE, value |-> <<>>]
       ELSE Returns([section_contents |-> section_contents, payload |-> payload])

\* the filters of the sections
SectionFilters ==
    { <<>>,
      <<F(<<"importance_score">>, CondDict({"$gte"}, Num(Threshold), NoValue, <<>>))>>,
      <<F(<<"categories">>, CondList(<<"jishu", "yanjiu">>))>>,
      <<F(<<"categories">>, CondList(<<"yanjiu">>)),
        F(<<"priority">>, CondDict({"$gte"}, Num(1), NoValue, <<>>))>>,
      CompanyUpdatesFilters }

\* the sections a template holds
Sections ==
    { Section(t, n, f) :
        t \in {"news_list", "categorized_list", "grouped_list", "custom"},
        n \in {0, 1, TestSectionItems, CompanyUpdatesItems},
        f \in SectionFilters }

(***************************************************************************)
(* The caller of the aggregator: it holds one corpus and calls the         *)
(* operations on it, in any order.                                         *)
(***************************************************************************)
InitAgg ==
    /\ redis_client = FALSE
    /\ cache = {}
    /\ now = 0
    /\ inv = [i \in Slots |-> IdleInv]
    /\ dup = IdleDup
    /\ batch = IdleBatch
    /\ last = NoCall
    /\ submitted = [seen |-> {}, spoiled |-> {}]
    /\ \E c \in Corpora : agg = [IdleAgg EXCEPT !.contents = c, !.given = c]
    /\ scoring = IdleScoring
    /\ coll = IdleColl

\* the operations that return a list of documents
ListOps ==
    {"aggregate_by_time_range", "sort_by_importance", "sort_by_time", "apply_filters",
     "limit_items", "deduplicate_by_title"}

\* an operation that works on the caller's list itself
InputBecomesResult(contents, op, r) ==
    IF op \in ListOps /\ ~r.raised THEN r.value ELSE contents

\* the caller's list after a call: no operation assigns to it, to one of its
\* places or to a field of a document; sorted(), the slice and the
\* comprehensions build new lists, and sort() is called on the lists of the
\* defaultdict only
InputAfter(contents, op, r) == contents

\* a call of an operation: r is what the operation returns or that it raised
AggCall(op, args, r) ==
    /\ agg' = [agg EXCEPT !.op = op, !.args = args,
                          !.result = IF r.raised THEN <<>> ELSE r.value,
                          !.raised = r.raised,
                          !.contents = InputAfter(agg.contents, op, r)]
    /\ UNCHANGED <<redis_client, cache, now, inv, last, dup, submitted, batch, scoring, coll>>

ApplyFilters(filters) ==
    AggCall("apply_filters", filters, apply_filters(agg.contents, filters))

SortByImportance ==
    AggCall("sort_by_importance", <<>>, Returns(sort_by_importance(agg.contents)))

LimitItems(max_items) ==
    AggCall("limit_items", max_items, Returns(limit_items(agg.contents, max_items)))

AggregateByCategory ==
    AggCall("aggregate_by_category", <<>>, Returns(aggregate_by_category(agg.contents)))

AggregateBySource ==
    AggCall("aggregate_by_source", <<>>, Returns(aggregate_by_source(agg.contents)))

AggregateByKeywords(min_score) ==
    AggCall("aggregate_by_keywords", min_score,
            Returns(aggregate_by_keywords(agg.contents, min_score)))

AggregateByEntity(entity_type) ==
    AggCall("aggregate_by_entity", entity_type,
            Returns(aggregate_by_entity(agg.contents, entity_type)))

AggregateByTimeRange(start_time, end_time) ==
    AggCall("aggregate_by_time_range", <<start_time, end_time>>,
            aggregate_by_time_range(agg.contents, start_time, end_time))

SortByTime(ascending) ==
    AggCall("sort_by_time", ascending, sort_by_time(agg.contents, ascending))

CalculateStatistics ==
    AggCall("calculate_statistics", <<>>, calculate_statistics(agg.contents))

DeduplicateByTitle ==
    AggCall("deduplicate_by_title", <<>>, Returns(deduplicate_by_title(agg.contents)))

GenerateSectionContent(section) ==
    AggCall("generate_section_content", section,
            generate_section_content(section, agg.contents))

NextAgg ==
    \/ \E filters \in FilterSpecs : ApplyFilters(filters)
    \/ SortByImportance
    \/ \E max_items \in MaxItems : LimitItems(max_items)
    \/ AggregateByCategory
    \/ AggregateBySource
    \/ \E min_score \in {DefaultMinScore, 0} : AggregateByKeywords(min_score)
    \/ \E entity_type \in {NoValue, Str("ORG"), Str("PERSON")} :
           AggregateByEntity(entity_type)
    \/ \E w \in Windows : AggregateByTimeRange(w[1], w[2])
    \/ \E ascending \in BOOLEAN : SortByTime(ascending)
    \/ CalculateStatistics
    \/ DeduplicateByTitle

SpecAgg == InitAgg /\ [][NextAgg]_vars

\* the report generator: it holds the documents it fetched and generates the
\* sections of a template from them, one after the other
MaxFetched == 2

Fetched ==
    { c \in Corpora : Len(c) <= MaxFetched \/ c = sample_contents }

InitSection ==
    /\ redis_client = FALSE
    /\ cache = {}
    /\ now = 0
    /\ inv = [i \in Slots |-> IdleInv]
    /\ dup = IdleDup
    /\ batch = IdleBatch
    /\ last = NoCall
    /\ submitted = [seen |-> {}, spoiled |-> {}]
    /\ \E c \in Fetched : agg = [IdleAgg EXCEPT !.contents = c, !.given = c]
    /\ scoring = IdleScoring
    /\ coll = IdleColl

NextSection == \E section \in Sections : GenerateSectionContent(section)

SpecSection == InitSection /\ [][NextSection]_vars

(***************************************************************************)
(* Claims on the aggregator.                                               *)
(***************************************************************************)
\* the documents of the caller's corpus that pass Test, in corpus order
Kept(Test(_)) == SelectSeq(agg.given, Test)

\* a filter spec of conditions with one operator each, on fields that hold a
\* value of the condition's type in every document: a score, the categories,
\* and the source tested for equality or membership
Plain(filters) ==
    \A f \in 1 .. Len(filters) :
        LET field == filters[f].field
            cond == filters[f].condition
        IN /\ field \in {<<"importance_score">>, <<"categories">>, <<"source">>}
           /\ cond.kind = "dict" =>
                 /\ Cardinality(cond.keys) = 1
                 /\ cond.keys \subseteq {"$gte", "$lte", "$in"}
           /\ field = <<"importance_score">> => cond.kind # "list"
           /\ field = <<"categories">> => cond.kind = "list"
           /\ field = <<"source">> => cond.kind = "value" \/ cond.keys = {"$in"}

\* document c satisfies the condition on the field
Satisfies(c, field, cond) ==
    LET x == CASE field = <<"importance_score">> -> Num(c.importance_score)
               [] field = <<"categories">> -> List(c.categories)
               [] field = <<"source">> -> c.source
    IN CASE cond.kind = "list" ->
                {x.l[k] : k \in 1 .. Len(x.l)}
                    \cap {cond.any[k] : k \in 1 .. Len(cond.any)} # {}
         [] cond.kind = "value" -> x = cond.eq
         [] cond.keys = {"$gte"} -> x.n >= cond.gte.n
         [] cond.keys = {"$lte"} -> x.n <= cond.lte.n
         [] cond.keys = {"$in"} -> x \in {cond.among[k] : k \in 1 .. Len(cond.among)}

\* C11: apply_filters returns exactly the documents that satisfy every field
\* condition, in corpus order.  With {importance_score: {$gte: t}} the result
\* is the documents with importance_score >= t, no more and no fewer; with
\* the list condition on categories added, it is those of them that have a
\* category of the list.
C11_FilterExact ==
    agg.op = "apply_filters" =>
        /\ Plain(agg.args)
           => /\ ~agg.raised
              /\ agg.result =
                    Kept(LAMBDA c : \A f \in 1 .. Len(agg.args) :
                            Satisfies(c, agg.args[f].field, agg.args[f].condition))
        /\ agg.args = <<F(<<"importance_score">>,
                          CondDict({"$gte"}, Num(Threshold), NoValue, <<>>))>>
           => /\ ~agg.raised
              /\ agg.result = Kept(LAMBDA c : c.importance_score >= Threshold)
        /\ agg.args = <<F(<<"importance_score">>,
                          CondDict({"$gte"}, Num(Threshold), NoValue, <<>>)),
                        F(<<"categories">>, CondList(<<"jishu">>))>>
           => /\ ~agg.raised
              /\ agg.result =
                    Kept(LAMBDA c : /\ c.importance_score >= Threshold
                                    /\ \E k \in 1 .. Len(c.categories) :
                                           c.categories[k] = "jishu")

\* the filter of test_apply_filters kept a document at the threshold and
\* dropped one for its score and one for its categories
C11_Witness ==
    /\ agg.op = "apply_filters"
    /\ Len(agg.args) = 2
    /\ agg.args[2].field = <<"categories">>
    /\ agg.args[1].condition.keys = {"$gte"}
    /\ \E k \in 1 .. Len(agg.result) : agg.result[k].importance_score = Threshold
    /\ \E k \in 1 .. Len(agg.given) :
           /\ agg.given[k].importance_score < Threshold
           /\ \E j \in 1 .. Len(agg.given[k].categories) :
                  agg.given[k].categories[j] = "jishu"
    /\ \E k \in 1 .. Len(agg.given) :
           /\ agg.given[k].importance_score >= Threshold
           /\ \A j \in 1 .. Len(agg.given[k].categories) :
                  agg.given[k].categories[j] # "jishu"

\* C12: apply_filters is fail-closed.  Whatever the operator form, it does
\* not raise, and no returned document has a filtered field that is unknown
\* or without a value.
C12_FailClosed ==
    agg.op = "apply_filters" =>
        /\ ~agg.raised
        /\ \A k \in 1 .. Len(agg.result) : \A f \in 1 .. Len(agg.args) :
               get_nested_value(agg.result[k], agg.args[f].field, NoValue) # NoValue

\* the place of document d in the sequence s
Place(s, d) == CHOOSE k \in 1 .. Len(s) : s[k] = d

\* C13: sort_by_importance returns a permutation of its input (no corpus
\* holds a document twice, so: the same documents, as many of them), with
\* scores that never increase, and two documents of equal score keep their
\* input order.
C13_StableDescending ==
    agg.op = "sort_by_importance" =>
        /\ ~agg.raised
        /\ Len(agg.result) = Len(agg.given)
        /\ {agg.result[k] : k \in 1 .. Len(agg.result)}
              = {agg.given[k] : k \in 1 .. Len(agg.given)}
        /\ \A k \in 1 .. Len(agg.result) - 1 :
               agg.result[k].importance_score >= agg.result[k + 1].importance_score
        /\ \A i, j \in 1 .. Len(agg.given) :
               (i < j /\ agg.given[i].importance_score = agg.given[j].importance_score)
               => Place(agg.result, agg.given[i]) < Place(agg.result, agg.given[j])

\* a corpus with two documents of equal score behind a document of lower score
\* was sorted
C13_Witness ==
    /\ agg.op = "sort_by_importance"
    /\ \E i, j, k \in 1 .. Len(agg.given) :
           /\ i < j /\ j < k
           /\ agg.given[i].importance_score < agg.given[j].importance_score
           /\ agg.given[j].importance_score = agg.given[k].importance_score
           /\ Place(agg.result, agg.given[j]) < Place(agg.result, agg.given[k])
           /\ Place(agg.result, agg.given[k]) < Place(agg.result, agg.given[i])

C15_LimitKeepsHighest ==
    (agg.op = "limit_items" /\ agg.args >= 0) =>
        \A i \in 1 .. Len(agg.result) :
            \A j \in 1 .. Len(agg.given) :
                (\A k \in 1 .. Len(agg.result) : agg.result[k] # agg.given[j])
                => agg.result[i].importance_score >= agg.given[j].importance_score

Groupings ==
    {"aggregate_by_category", "aggregate_by_source",
     "aggregate_by_keywords", "aggregate_by_entity"}

\* the scores of the sequence never increase
Descending(items) ==
    \A k \in 1 .. Len(items) - 1 :
        items[k].importance_score >= items[k + 1].importance_score

\* C16: for the groupings by category, source, keyword and entity the
\* documents of every group are in non-increasing order of importance_score,
\* and for the keyword and the entity grouping the groups come in
\* non-increasing order of size.
C16_GroupsOrdered ==
    agg.op \in Groupings =>
        /\ \A g \in 1 .. Len(agg.result) : Descending(agg.result[g][2])
        /\ agg.op \in {"aggregate_by_keywords", "aggregate_by_entity"}
           => \A g \in 1 .. Len(agg.result) - 1 :
                  Len(agg.result[g][2]) >= Len(agg.result[g + 1][2])

\* the time a document counts with: publish_time when it has one, else
\* processing_time, in ticks (a naive time reads as UTC); None when it has
\* neither
EffectiveTime(c) ==
    IF c.publish_time # <<>> THEN <<c.publish_time[1].wall>>
    ELSE IF c.processing_time # <<>> THEN <<c.processing_time[1].wall>>
    ELSE <<>>

\* C17: aggregate_by_time_range returns, in corpus order, exactly the
\* documents whose effective time t has start <= t <= end, both bounds
\* included; t is publish_time when present and processing_time otherwise,
\* and a document with neither is left out.
C17_TimeRangeInclusive ==
    agg.op = "aggregate_by_time_range" =>
        /\ ~agg.raised
        /\ agg.result =
              Kept(LAMBDA c : /\ EffectiveTime(c) # <<>>
                              /\ agg.args[1][1].wall <= EffectiveTime(c)[1]
                              /\ EffectiveTime(c)[1] <= agg.args[2][1].wall)

\* a window returned a document on its lower and one on its upper bound, one
\* of them by its processing_time, and left out a document without a time
C17_Witness ==
    /\ agg.op = "aggregate_by_time_range"
    /\ \E i, j \in 1 .. Len(agg.result) :
           /\ EffectiveTime(agg.result[i])[1] = agg.args[1][1].wall
           /\ EffectiveTime(agg.result[j])[1] = agg.args[2][1].wall
           /\ agg.result[i].publish_time = <<>>
           /\ i # j
    /\ \E k \in 1 .. Len(agg.given) : EffectiveTime(agg.given[k]) = <<>>

\* the corpus is 15 documents with publish times one hour apart, and the
\* window asked for is six hours long
HourlyScenario ==
    /\ agg.op = "aggregate_by_time_range"
    /\ Len(agg.given) = SampleSize
    /\ \A k \in 1 .. Len(agg.given) :
           /\ agg.given[k].publish_time # <<>>
           /\ agg.given[k].publish_time[1].wall
                 = agg.given[1].publish_time[1].wall - (k - 1) * TicksPerHour
    /\ agg.args[2][1].wall - agg.args[1][1].wall = WindowHours * TicksPerHour

\* the result is the n documents of the corpus with the latest publish times
MostRecent(n) ==
    agg.result =
        Kept(LAMBDA c : Cardinality({k \in 1 .. Len(agg.given) :
                            agg.given[k].publish_time[1].wall > c.publish_time[1].wall}) < n)

\* C18 as stated: for 15 documents with publish times one hour apart, a
\* six-hour window returns exactly the 6 most recent documents.
C18_SixMostRecent == HourlyScenario => MostRecent(WindowHours)

\* C18, amended: for 15 documents with publish times one hour apart, a
\* six-hour window that ends after the newest publish time and less than an
\* hour after it returns exactly the 6 most recent documents.
C18_SixWhenEndingLater ==
    ( /\ HourlyScenario
      /\ agg.given[1].publish_time[1].wall < agg.args[2][1].wall
      /\ agg.args[2][1].wall < agg.given[1].publish_time[1].wall + TicksPerHour )
    => MostRecent(WindowHours)

\* the window of the test, ending after base_time, returned six documents
C18_Witness ==
    /\ HourlyScenario
    /\ agg.given[1].publish_time[1].wall < agg.args[2][1].wall
    /\ Len(agg.result) = WindowHours

ScoreInputs ==
    [publish_time : {0 - 1, 0},
     source : {"", "openai", "blog"},
     source_authority : {NoneNumber, 0 - 5000, 0, 7000, 20000},
     quality_score : {NoneNumber, 0 - 30000, 0, 9000, 50000},
     title : {<<"a", "i">>, <<"n", "o", "v", "e", "l">>, Breakthrough \o <<SP, "a", "i">>},
     entities : {<<>>, [k \in 1 .. 3 |-> [text |-> <<"x">>, label |-> "ORG"]]},
     keywords : {<<>>, <<[term |-> <<"a", "i">>, score |-> 8000]>>},
     categories : {{}, {"jishu"}}]

InitScore ==
    /\ redis_client = FALSE
    /\ cache = {}
    /\ now = 0
    /\ inv = [i \in Slots |-> IdleInv]
    /\ dup = IdleDup
    /\ batch = IdleBatch
    /\ last = NoCall
    /\ submitted = [seen |-> {}, spoiled |-> {}]
    /\ agg = IdleAgg
    /\ \E content \in ScoreInputs, clock \in {0, 100, 800} :
           scoring = [content |-> content, clock |-> clock, result |-> <<>>]
    /\ coll = IdleColl

\* calculate_importance is called and returns
ScoreCall ==
    /\ scoring.result = <<>>
    /\ scoring' = [scoring EXCEPT
                      !.result = <<calculate_importance(scoring.content, scoring.clock)>>]
    /\ UNCHANGED <<redis_client, cache, now, inv, last, dup, submitted, batch, agg, coll>>

NextScore == ScoreCall

SpecScore == InitScore /\ [][NextScore]_vars

\* C20: for every content, calculate_importance returns a score s with
\* 0 <= s <= 1, whatever the factor scores and the boost factor are, and it
\* returns 0.5 when an internal error occurs, instead of raising.
C20_ScoreBounded ==
    scoring.result # <<>> =>
        /\ 0 <= scoring.result[1]
        /\ scoring.result[1] <= 1000000000
        /\ ( \/ scoring.content.quality_score = NoneNumber
             \/ scoring.content.source_authority = NoneNumber )
           => scoring.result[1] = 500000000

\* a content whose weighted and boosted total is above 1 was scored 1
C20_Witness ==
    /\ scoring.result = <<1000000000>>
    /\ scoring.content.quality_score > 10000
    /\ scoring.content.source_authority > 10000

\* the title of the scored content holds a key of important_keywords
TitleHasImportantKeyword ==
    \E e \in ImportantKeywords : Contains(scoring.content.title, e.keyword)

\* the scored content with a title that holds no such key
PlainTitled == [scoring.content EXCEPT !.title = <<"a", "i">>]

\* C21: a title that contains an important keyword elevates the importance
\* score: of two contents that differ only in that one title contains such a
\* keyword, that one has a boost factor strictly above 1.0 and a strictly
\* higher unclamped score.
C21_TitleKeywordElevates ==
    ( /\ scoring.result # <<>>
      /\ ~ImportanceRaises(scoring.content)
      /\ TitleHasImportantKeyword )
    => /\ calculate_boost_factor(scoring.content) > 1000
       /\ BoostedTotal(scoring.content, scoring.clock)
             > BoostedTotal(PlainTitled, scoring.clock)

\* C28: of a condition map with more than one operator, apply_filters applies
\* only the first it recognises in the order $gte, $lte, $in.  With
\* {$gte: a, $lte: b} on the score the result is the documents with a score of
\* at least a, those above b included; a map with none of the three operators
\* filters nothing out.
C28_FirstOperatorOnly ==
    ( /\ agg.op = "apply_filters"
      /\ Len(agg.args) = 1
      /\ agg.args[1].condition.kind = "dict" )
    => LET field == agg.args[1].field
           cond == agg.args[1].condition
       IN /\ cond.keys \cap {"$gte", "$lte", "$in"} = {}
             => ~agg.raised /\ agg.result = agg.given
          /\ field = <<"importance_score">> =>
                /\ ~agg.raised
                /\ "$gte" \in cond.keys
                   => agg.result = Kept(LAMBDA c : c.importance_score >= cond.gte.n)
                /\ "$gte" \notin cond.keys /\ "$lte" \in cond.keys
                   => agg.result = Kept(LAMBDA c : c.importance_score <= cond.lte.n)
                /\ cond.keys \cap {"$gte", "$lte", "$in"} = {"$in"}
                   => agg.result =
                         Kept(LAMBDA c : Among(Num(c.importance_score), cond.among))

\* a filter {$gte: a, $lte: b} kept a document above b and dropped one below a
C28_Witness ==
    /\ agg.op = "apply_filters"
    /\ Len(agg.args) = 1
    /\ agg.args[1].condition.kind = "dict"
    /\ agg.args[1].condition.keys = {"$gte", "$lte"}
    /\ \E k \in 1 .. Len(agg.result) :
           agg.result[k].importance_score > agg.args[1].condition.lte.n
    /\ \E k \in 1 .. Len(agg.given) :
           agg.given[k].importance_score < agg.args[1].condition.gte.n

\* the call's documents that hold an entity of the label ORG
WithOrg(contents) ==
    SelectSeq(contents, LAMBDA c : \E k \in 1 .. Len(c.entities) :
                                      c.entities[k].label = "ORG")

\* C29: an equality filter whose dotted path goes through a field that holds
\* a list, as {entities.label: ORG} of the section company_updates of the
\* weekly template, excludes every document, those with an ORG entity
\* included: the filters of the section let no document through, and the
\* payload of the section is shaped from no document and has no item and no
\* group, whatever the corpus.
C29_ListPathExcludesAll ==
    ( agg.op = "generate_section_content" /\ agg.args.filters = CompanyUpdatesFilters )
    => /\ ~agg.raised
       /\ agg.result.section_contents = <<>>
       /\ agg.result.payload.items = <<>>
       /\ agg.result.payload.groups = <<>>
       /\ agg.result.payload.count = 0

\* the section company_updates was generated from a corpus with a document
\* that holds an ORG entity
C29_Witness ==
    /\ agg.op = "generate_section_content"
    /\ agg.args = Section("grouped_list", CompanyUpdatesItems, CompanyUpdatesFilters)
    /\ WithOrg(agg.given) # <<>>
    /\ agg.result.payload.groups = <<>>

\* C22: the payload of a section is made by the filters of the section, then
\* the limit to max_items, then the shaping by type.  For max_items = n >= 1
\* the payload is shaped from at most n documents, the first n that pass the
\* filters, every one satisfying the filters, and a news_list payload has one
\* item per such document, so at most n items.
C22_SectionPipeline ==
    ( agg.op = "generate_section_content" /\ ~agg.raised )
    => LET section == agg.args
           n == section.max_items
           shaped == agg.result.section_contents
           passed == IF section.filters = <<>> THEN agg.given
                     ELSE apply_filters(agg.given, section.filters).value
       IN /\ n = 0 => shaped = passed
          /\ n >= 1 =>
                /\ Len(shaped) <= n
                /\ shaped = SubSeq(passed, 1, Min(n, Len(passed)))
          /\ Plain(section.filters) =>
                \A k \in 1 .. Len(shaped) : \A f \in 1 .. Len(section.filters) :
                    Satisfies(shaped[k], section.filters[f].field,
                              section.filters[f].condition)
          /\ section.section_type = "news_list" =>
                /\ agg.result.payload.items
                      = [k \in 1 .. Len(shaped) |-> NewsItem(shaped[k])]
                /\ n >= 1 => Len(agg.result.payload.items) <= n
          /\ section.section_type = "categorized_list" =>
                agg.result.payload = generate_categorized_list(shaped)
          /\ section.section_type = "grouped_list" =>
                agg.result.payload = generate_grouped_list(shaped)

\* a news_list section with a filter and a limit: the filter dropped a
\* document, and more documents passed it than the limit lets through
C22_Witness ==
    /\ agg.op = "generate_section_content"
    /\ ~agg.raised
    /\ agg.args.section_type = "news_list"
    /\ agg.args.max_items >= 1
    /\ agg.args.filters # <<>>
    /\ Len(agg.result.payload.items) = agg.args.max_items
    /\ LET passed == apply_filters(agg.given, agg.args.filters).value
       IN Len(passed) > agg.args.max_items /\ Len(passed) < Len(agg.given)

\* the result of sort_by_time keeps the input order of two documents whose
\* time keys are equal
KeepsTieOrder(Key(_)) ==
    \A i, j \in 1 .. Len(agg.given) :
        (i < j /\ Key(agg.given[i]) = Key(agg.given[j]))
        => Place(agg.result, agg.given[i]) < Place(agg.result, agg.given[j])

\* the result of sort_by_time holds the documents of the call, each once
SameDocuments ==
    /\ Len(agg.result) = Len(agg.given)
    /\ {agg.result[k] : k \in 1 .. Len(agg.result)}
          = {agg.given[k] : k \in 1 .. Len(agg.given)}

\* C25 as stated: sort_by_time is stable in both directions, and a document
\* without a publish time is ordered as the earliest of all documents, ahead
\* of every document that has one in ascending order and behind it in
\* descending order.
C25_NoPublishTimeEarliest ==
    ( agg.op = "sort_by_time" /\ ~agg.raised )
    => /\ SameDocuments
       /\ KeepsTieOrder(LAMBDA c : c.publish_time)
       /\ \A d, e \in {agg.given[k] : k \in 1 .. Len(agg.given)} :
              (d.publish_time = <<>> /\ e.publish_time # <<>>)
              => IF agg.args
                 THEN Place(agg.result, d) < Place(agg.result, e)
                 ELSE Place(agg.result, d) > Place(agg.result, e)

\* the time a document is sorted by, a number: publish_time, processing_time
\* when there is no publish_time, and a time before every other one when
\* there is neither
TimeKey(c) ==
    IF EffectiveTime(c) = <<>> THEN 0 - 1 ELSE EffectiveTime(c)[1]

\* C25: sort_by_time raises when the documents' times mix naive and aware
\* ones (the time of a document with neither time counts as aware); else it
\* returns the documents ordered by publish_time, or processing_time where
\* there is no publish_time, ascending or descending as asked, two documents
\* of the same time in input order in both directions, and a document with
\* neither time as the earliest: ahead of every document with a time in
\* ascending order, behind it in descending order.
C25_NoTimeEarliest ==
    agg.op = "sort_by_time" =>
        /\ agg.raised <=>
              \E d, e \in {agg.given[k] : k \in 1 .. Len(agg.given)} :
                  /\ d.publish_time # <<>> /\ d.publish_time[1].tzinfo = "naive"
                  /\ e.publish_time = <<>> \/ e.publish_time[1].tzinfo = "utc"
        /\ ~agg.raised =>
              /\ SameDocuments
              /\ \A k \in 1 .. Len(agg.result) - 1 :
                     IF agg.args
                     THEN TimeKey(agg.result[k]) <= TimeKey(agg.result[k + 1])
                     ELSE TimeKey(agg.result[k]) >= TimeKey(agg.result[k + 1])
              /\ KeepsTieOrder(TimeKey)
              /\ \A d, e \in {agg.given[k] : k \in 1 .. Len(agg.given)} :
                     (EffectiveTime(d) = <<>> /\ EffectiveTime(e) # <<>>)
                     => IF agg.args
                        THEN Place(agg.result, d) < Place(agg.result, e)
                        ELSE Place(agg.result, d) > Place(agg.result, e)

\* a descending sort of a document without a time ahead of two documents
\* published at the same time: the two kept their order, ahead of the first
C25_Witness ==
    /\ agg.op = "sort_by_time"
    /\ ~agg.args
    /\ ~agg.raised
    /\ \E i, j, k \in 1 .. Len(agg.given) :
           /\ i < j /\ j < k
           /\ EffectiveTime(agg.given[i]) = <<>>
           /\ EffectiveTime(agg.given[j]) # <<>>
           /\ EffectiveTime(agg.given[j]) = EffectiveTime(agg.given[k])
           /\ Place(agg.result, agg.given[j]) < Place(agg.result, agg.given[k])
           /\ Place(agg.result, agg.given[k]) < Place(agg.result, agg.given[i])

(***************************************************************************)
(* The order of the stages of process_content, and what a call that        *)
(* returns no result leaves behind (Spec).                                 *)
(***************************************************************************)
\* the stages of process_content in the order of its code
StageOrder == <<"title", "lookup", "clean", "extract", "score", "mark">>

StageRank(stage) == CHOOSE k \in 1 .. Len(StageOrder) : StageOrder[k] = stage

\* C24: in every execution of process_content the URL lookup comes before
\* the cleaning, the cleaning before the extraction, the extraction before
\* the scoring and the scoring before the dedup mark; a call on a processor
\* with a cache, for a titled document with a URL, does not clean before the
\* lookup is answered; and a call whose lookup finds the URL in the
\* processed-URL namespace is turned away there, with no result and no
\* cleaning, extraction, scoring or mark.
C24_LookupBeforePipeline ==
    \A i \in Slots :
        /\ \A a, b \in 1 .. Len(inv[i].steps) :
               a < b => StageRank(inv[i].steps[a]) < StageRank(inv[i].steps[b])
        /\ \A k \in 1 .. Len(inv[i].steps) :
               ( /\ inv[i].steps[k] = "clean"
                 /\ redis_client /\ inv[i].doc.url # <<>> )
               => k > 1 /\ inv[i].steps[k - 1] = "lookup"
        /\ inv[i].lookup = "hit"
           => /\ inv[i].pc = "done"
              /\ inv[i].result = <<>>
              /\ inv[i].steps = <<"title", "lookup">>

\* a document that passes the checks was turned away at the lookup, and
\* before that a call ran through all the stages
C24_Witness ==
    /\ Cur.pc = "done" /\ Valid(Cur.doc) /\ Cur.lookup = "hit"
    /\ Cur.steps = <<"title", "lookup">>
    /\ last.op = "process" /\ last.returned

\* the keys an invocation writes when it marks its document
MarkKeys(r) == {UrlKey(r.doc.url), HashKey(HashTable[r.doc.content])}

\* a call at its end: one without a result has not reached the mark step
NoResultNoMark ==
    \A i \in Slots :
        (inv[i].pc = "done" /\ inv[i].result = <<>>)
        => \A k \in 1 .. Len(inv[i].steps) : inv[i].steps[k] # "mark"

\* a key enters the cache only in the mark step of an invocation that has
\* completed the scoring and holds its result, and it is a key of that
\* invocation's document
MarkedByScoredOnly ==
    \A key \in cache' \ cache :
        \E i \in Slots :
            /\ inv[i].result # <<>>
            /\ inv[i].steps[Len(inv[i].steps)] \in {"score", "mark"}
            /\ inv'[i].result = inv[i].result
            /\ key \in MarkKeys(inv[i])

\* C26: an invocation of process_content that returns no result (no title,
\* URL already processed, cleaned text too short, or an error before the
\* mark) never reaches the mark step and leaves the dedup cache as it is:
\* keys are written only by an invocation that has completed the scoring.
\* So a skipped document leaves no entry that could turn away a later
\* document of the same URL or content.
C26_SkipLeavesCache == []NoResultNoMark /\ [][MarkedByScoredOnly]_vars

\* on a cache with live entries a document was looked up and not found, its
\* processing raised, and the cache holds none of its keys
C26_Witness ==
    /\ redis_client /\ cache # {}
    /\ Cur.pc = "done" /\ Cur.result = <<>> /\ Cur.log = "error"
    /\ Cur.lookup = "miss"
    /\ MarkKeys(Cur) \cap cache = {}

\* a call for a document without a URL ends without a lookup, and with a
\* result when the document passes the checks and no stage raises; of two
\* such calls in a row for the same text, on a processor with a cache, both
\* return a result
NoUrlNoLookup ==
    /\ (Cur.pc # "idle" /\ Cur.doc.url = <<>>)
       => /\ Cur.pc = "done"
          /\ Cur.lookup \in {"none", "skipped"}
          /\ \A k \in 1 .. Len(Cur.steps) : Cur.steps[k] # "lookup"
          /\ (Valid(Cur.doc) /\ Cur.log # "error") => Cur.result # <<>>
    /\ ( /\ redis_client
         /\ last.op = "process" /\ last.url = <<>> /\ last.clean
         /\ Cur.pc = "done" /\ Cur.doc.url = <<>>
         /\ Valid(Cur.doc) /\ Cur.log # "error"
         /\ HashTable[Cur.doc.content] = last.hash )
       => last.returned /\ Cur.result # <<>>

\* a step of a call for a document without a URL adds no key to the cache
NoUrlNoWrite ==
    (inv'[0].doc.url = <<>> /\ inv'[0].pc # "idle") => cache' \subseteq cache

\* C27: for a document with an empty URL, process_content neither reads nor
\* writes a dedup entry, in the URL namespace or in the content-hash one; so
\* processing the same document without a URL twice in a row, on a live
\* cache, yields two ProcessedContent values.
C27_EmptyUrlBypassesCache == []NoUrlNoLookup /\ [][NoUrlNoWrite]_vars

\* on a cache with live entries, the same text without a URL was processed
\* twice in a row, and both calls returned a result
C27_Witness ==
    /\ redis_client /\ cache # {}
    /\ last.op = "process" /\ last.url = <<>> /\ last.returned
    /\ Cur.pc = "done" /\ Cur.doc.url = <<>> /\ Cur.result # <<>>
    /\ HashTable[Cur.doc.content] = last.hash

(***************************************************************************)
(* DataCollector.deduplicate.  The collector has a cache client of its own *)
(* kind (redis_client) and writes the namespace content_hash of the cache. *)
(***************************************************************************)
MaxList == 3

\* the number of characters of the content that enter the hash
HashPrefix == 500

LongText == Rep(<<"x">>, HashPrefix)

CollectedData(data_id, title, content, url) ==
    [data_id |-> data_id, title |-> title, content |-> content, url |-> url]

\* the items, by data_id: the two of test_deduplication (one title and
\* content under two URLs), and two of another title under the same two
\* URLs, whose contents differ behind the first HashPrefix characters only,
\* and one without content
Item ==
    <<CollectedData(1, <<"s", "a", "m", "e">>, <<"c">>, "https://example.com/1"),
      CollectedData(2, <<"s", "a", "m", "e">>, <<"c">>, "https://example.com/2"),
      CollectedData(3, <<"o">>, LongText \o <<"a">>, "https://example.com/1"),
      CollectedData(4, <<"o">>, LongText \o <<"b">>, "https://example.com/2"),
      CollectedData(5, <<"o">>, <<>>, "https://example.com/3")>>

\* the lists a caller passes: items in any order, none twice
DataLists ==
    { l \in UNION {[1 .. n -> DOMAIN Item] : n \in 0 .. MaxList} :
        \A i, j \in DOMAIN l : i # j => l[i] # l[j] }

\* a hash of the title and the whole content
FullContentHash(data) == data.title \o <<":">> \o data.content

\* _calculate_content_hash: sha256 of f"{title}:{content[:500]}", of
\* f"{title}:" when there is no content
collected_content_hash(data) ==
    data.title \o <<":">> \o
        (IF data.content # <<>>
         THEN SubSeq(data.content, 1, Min(Len(data.content), HashPrefix))
         ELSE <<>>)

\* _check_redis_duplicate: the answer of exists, False when exists raised
check_redis_duplicate(keys, content_hash, ok) == ok /\ HashKey(content_hash) \in keys

\* a mark that writes nothing
mark_as_seen_never(keys, content_hash, ok) == keys

\* _mark_as_seen: the cache after the set, unchanged when the set raised
mark_as_seen(keys, content_hash, ok) ==
    IF ok THEN keys \cup {HashKey(content_hash)} ELSE keys

\* the item the loop is at, and its hash
AtItem(c) == Item[c.data_list[c.k]]
AtHash(c) == collected_content_hash(AtItem(c))

\* the loop of deduplicate from item k to its next await or to the return
RECURSIVE Advance(_, _)
Advance(c, client) ==
    IF c.k > Len(c.data_list) THEN [c EXCEPT !.pc = "done"]
    ELSE IF AtItem(c).url \in c.seen_urls
    THEN Advance([c EXCEPT !.k = @ + 1], client)
    ELSE LET c1 == [c EXCEPT !.seen_urls = @ \cup {AtItem(c).url}]
         IN IF AtHash(c) \in c1.seen_hashes
            THEN Advance([c1 EXCEPT !.k = @ + 1], client)
            ELSE LET c2 == [c1 EXCEPT !.seen_hashes = @ \cup {AtHash(c)}]
                 IN IF client THEN [c2 EXCEPT !.pc = "exists"]
                    ELSE Advance([c2 EXCEPT !.k = @ + 1,
                                            !.deduplicated = Append(@, c.data_list[c.k])],
                                 client)

\* the hashes of the items a call returned
ReturnedHashes(c) ==
    {collected_content_hash(Item[c.deduplicated[i]]) : i \in 1 .. Len(c.deduplicated)}

\* the caller calls deduplicate(data_list), which runs to its first await
CallDeduplicate(data_list) ==
    /\ coll.pc \in {"idle", "done"}
    /\ coll' = Advance([IdleColl EXCEPT !.data_list = data_list,
                                        !.admitted = IF coll.spoiled THEN {}
                                                     ELSE coll.admitted \cup ReturnedHashes(coll),
                                        !.spoiled = coll.spoiled],
                       redis_client)
    /\ UNCHANGED <<redis_client, cache, now, inv, last, dup, submitted, batch, agg, scoring>>

\* exists answers, or raises: the item is skipped, or its set begins
CollExistsReply(ok) ==
    /\ coll.pc = "exists"
    /\ coll' = IF check_redis_duplicate(cache, AtHash(coll), ok)
               THEN Advance([coll EXCEPT !.k = @ + 1, !.found = @ \cup {coll.k}],
                            redis_client)
               ELSE [coll EXCEPT !.pc = "set", !.spoiled = @ \/ ~ok,
                                 !.admitted = IF ok THEN @ ELSE {}]
    /\ UNCHANGED <<redis_client, cache, now, inv, last, dup, submitted, batch, agg, scoring>>

\* the set is done, or raises: the item is appended either way
CollSetReply(ok) ==
    /\ coll.pc = "set"
    /\ cache' = mark_as_seen(cache, AtHash(coll), ok)
    /\ coll' = Advance([coll EXCEPT !.k = @ + 1,
                                    !.deduplicated = Append(@, coll.data_list[coll.k]),
                                    !.spoiled = @ \/ ~ok,
                                    !.admitted = IF ok THEN @ ELSE {}],
                       redis_client)
    /\ UNCHANGED <<redis_client, now, inv, last, dup, submitted, batch, agg, scoring>>

\* the TTL of an entry runs out
CollExpire(key) ==
    /\ key \in cache
    /\ cache' = cache \ {key}
    /\ coll' = [coll EXCEPT !.spoiled = TRUE, !.admitted = {}]
    /\ UNCHANGED <<redis_client, now, inv, last, dup, submitted, batch, agg, scoring>>

NextColl ==
    \/ \E data_list \in DataLists : CallDeduplicate(data_list)
    \/ \E ok \in BOOLEAN : CollExistsReply(ok)
    \/ \E ok \in BOOLEAN : CollSetReply(ok)
    \/ \E key \in cache : CollExpire(key)

SpecColl == Init /\ [][NextColl]_vars

(***************************************************************************)
(* Properties of deduplicate called sequentially (SpecColl).               *)
(***************************************************************************)
\* two items have the same title and the same first HashPrefix characters
\* of content
SameHash(x, y) ==
    /\ x.title = y.title
    /\ SubSeq(x.content, 1, Min(Len(x.content), HashPrefix))
          = SubSeq(y.content, 1, Min(Len(y.content), HashPrefix))

\* the items at the places p and q of the list of the call collide
Collide(p, q) ==
    LET x == Item[coll.data_list[p]]
        y == Item[coll.data_list[q]]
    IN x.url = y.url \/ SameHash(x, y)

\* the item at place p of the list was returned
KeptAt(p) == \E i \in 1 .. Len(coll.deduplicated) : coll.deduplicated[i] = coll.data_list[p]

\* the result is a subsequence of the list, and no two of its items have the
\* same URL or the same hash
DistinctSubsequence ==
    /\ \A i \in 1 .. Len(coll.deduplicated) :
           \E p \in 1 .. Len(coll.data_list) : coll.data_list[p] = coll.deduplicated[i]
    /\ \A i, j \in 1 .. Len(coll.deduplicated) :
           i < j => /\ Place(coll.data_list, coll.deduplicated[i])
                          < Place(coll.data_list, coll.deduplicated[j])
                    /\ Item[coll.deduplicated[i]].url # Item[coll.deduplicated[j]].url
                    /\ ~SameHash(Item[coll.deduplicated[i]], Item[coll.deduplicated[j]])

\* C23 as stated: deduplicate returns a subsequence of its input in which no
\* two items have the same URL and no two the same title-plus-content hash,
\* and of items that collide the first in input order is the one kept: an
\* item is returned when no item before it in the input has its URL or its
\* hash, and only then.
C23_OnlyFirstOfCollidingKept ==
    (coll.pc = "done" /\ coll.found = {}) =>
        /\ DistinctSubsequence
        /\ \A p \in 1 .. Len(coll.data_list) :
               KeptAt(p) <=> \A q \in 1 .. p - 1 : ~Collide(q, p)

\* the places of the list whose item a collector without a cache returns:
\* the first of its URL, with no first-of-its-URL item of its hash before it
LocalPlaces(data_list) ==
    LET first_url(p) == \A q \in 1 .. p - 1 : Item[data_list[q]].url # Item[data_list[p]].url
    IN {p \in 1 .. Len(data_list) :
           /\ first_url(p)
           /\ \A q \in 1 .. p - 1 :
                  first_url(q) => ~SameHash(Item[data_list[q]], Item[data_list[p]])}

\* C23: deduplicate returns a subsequence of its input in which no two items
\* have the same URL and no two the same title-plus-content hash.  An item
\* is returned exactly when it is the first of its URL in the input, no
\* earlier first-of-its-URL item has its hash, and the cache did not answer
\* that its hash is known.  So an item with no colliding item before it is
\* kept (unless the cache knew it), and an item that is left out has an item
\* before it with its URL or its hash (or the cache knew it).
C23_FirstUnseenKept ==
    coll.pc = "done" =>
        /\ DistinctSubsequence
        /\ \A p \in 1 .. Len(coll.data_list) :
               /\ KeptAt(p) <=> (p \in LocalPlaces(coll.data_list) /\ p \notin coll.found)
               /\ ( /\ \A q \in 1 .. p - 1 : ~Collide(q, p)
                    /\ p \notin coll.found )
                  => KeptAt(p)
               /\ ~KeptAt(p)
                  => \/ \E q \in 1 .. p - 1 : Collide(q, p)
                     \/ p \in coll.found

\* of a list of three, the second item was left out for the URL of the
\* first, and the third was returned, with the hash of the second (their
\* contents differ behind the hashed prefix) and a URL of its own
C23_Witness ==
    /\ coll.pc = "done"
    /\ Len(coll.data_list) = 3
    /\ coll.deduplicated = <<coll.data_list[1], coll.data_list[3]>>
    /\ coll.found = {}
    /\ Item[coll.data_list[2]].url = Item[coll.data_list[1]].url
    /\ SameHash(Item[coll.data_list[3]], Item[coll.data_list[2]])
    /\ Item[coll.data_list[3]].content # Item[coll.data_list[2]].content

\* C30: with a cache available and its entries live (no cache call raises,
\* no entry expires), every item that deduplicate has taken into its result
\* is marked in the cache, and no call returns an item whose hash an earlier
\* call returned: a later call given the same items returns none of them.
\* Without a cache the result depends on the list only, so the same items
\* are returned again by every call.
C30_AdmittedOnceWithCache ==
    /\ (redis_client /\ ~coll.spoiled)
       => /\ \A h \in ReturnedHashes(coll) : HashKey(h) \in cache
          /\ ReturnedHashes(coll) \cap coll.admitted = {}
          /\ \A h \in coll.admitted : HashKey(h) \in cache
    /\ (~redis_client /\ coll.pc = "done")
       => coll.deduplicated = Pick(coll.data_list, LocalPlaces(coll.data_list))

\* with a cache, a call for items that an earlier call returned has returned
\* none of them
C30_Witness ==
    /\ redis_client /\ ~coll.spoiled
    /\ coll.pc = "done"
    /\ Len(coll.data_list) >= 2
    /\ coll.deduplicated = <<>>
    /\ coll.found # {}
    /\ \A p \in 1 .. Len(coll.data_list) :
           collected_content_hash(Item[coll.data_list[p]]) \in coll.admitted

====
